---- MODULE Spec2Model ----
(***************************************************************************)
(* Model of the SAGE gateway core: the model restriction service           *)
(* (utils/models.py), the scoring model selector (models/manager.py), the  *)
(* conversation memory (utils/memory.py) and the request orchestrator     *)
(* SageTool.execute (tools/sage.py).                                       *)
(*                                                                         *)
(* Strings that the code inspects character by character (model names,    *)
(* restriction entries) are sequences of one-character strings, so that    *)
(* lower(), strip(), startswith() and the word-boundary regex are computed *)
(* as Python computes them.                                                *)
(***************************************************************************)
EXTENDS Integers, Sequences, FiniteSets, TLC

VARIABLES
    env,            \* os.environ: the five restriction variables, each already split on ","
    restrictions,   \* ModelRestrictionService fields after load_restrictions()
    models,         \* ModelManager.models: the catalog, in file order
    providers,      \* providers.PROVIDERS: names of the initialised providers
    default_model,  \* Config.DEFAULT_MODEL
    threads,        \* ConversationMemory._threads: thread id (index) -> ConversationThread
    clock,          \* the wall clock read by datetime.now()
    calls,          \* one record per SageTool.execute call: position and locals
    checked,        \* the last is_model_allowed call: argument and return value
    selected,       \* the last select_model_for_task call: arguments and return value
    log,            \* per thread, the add_turn calls that returned True, in call order
    ret,            \* the last direct conversation-memory call and what it returned,
                    \* and the dictionary the last get_thread call handed out
    outputs         \* the files _write_output_to_file has created

vars == <<env, restrictions, models, providers, default_model, threads, clock,
          calls, checked, selected, log, ret, outputs>>

(***************************************************************************)
(* Python str operations on character sequences                            *)
(***************************************************************************)

UpperChars == <<"A","B","C","D","E","F","G","H","I","J","K","L","M",
                "N","O","P","Q","R","S","T","U","V","W","X","Y","Z">>

LowerChars == <<"a","b","c","d","e","f","g","h","i","j","k","l","m",
                "n","o","p","q","r","s","t","u","v","w","x","y","z">>

DigitChars == {"0","1","2","3","4","5","6","7","8","9"}

\* the class \w of Python's re module (ASCII part)
WordChars == {UpperChars[i] : i \in 1..26} \cup {LowerChars[i] : i \in 1..26}
             \cup DigitChars \cup {"_"}

\* the characters str.strip() removes
Whitespace == {" ", "\t", "\n"}

LowerChar(c) ==
    IF \E i \in 1..26 : UpperChars[i] = c
    THEN LowerChars[CHOOSE i \in 1..26 : UpperChars[i] = c]
    ELSE c

\* str.lower()
Lower(s) == [i \in 1..Len(s) |-> LowerChar(s[i])]

\* str.strip()
Strip(s) ==
    LET keep == {i \in 1..Len(s) : s[i] \notin Whitespace}
    IN  IF keep = {} THEN <<>>
        ELSE LET lo == CHOOSE i \in keep : \A j \in keep : i <= j
                 hi == CHOOSE i \in keep : \A j \in keep : j <= i
             IN  SubSeq(s, lo, hi)

\* a variant that finds the prefix anywhere in the string
StartsWith_anywhere(s, prefix) ==
    \E i \in 1..(Len(s) - Len(prefix) + 1) :
        SubSeq(s, i, i + Len(prefix) - 1) = prefix

\* str.startswith(prefix)
StartsWith(s, prefix) ==
    /\ Len(prefix) <= Len(s)
    /\ SubSeq(s, 1, Len(prefix)) = prefix

\* \b at the gap in front of position k (k = Len(s)+1 is the end of the string)
IsWordAt(s, j) == j \in 1..Len(s) /\ s[j] \in WordChars

WordBoundary(s, k) == IsWordAt(s, k - 1) # IsWordAt(s, k)

\* a variant that searches for the pattern anywhere in the string
ReSearchWord_anywhere(pattern, s) ==
    \E i \in 1..(Len(s) - Len(pattern) + 1) :
        SubSeq(s, i, i + Len(pattern) - 1) = pattern

\* re.search(r"\b" + re.escape(pattern) + r"\b", s)
ReSearchWord(pattern, s) ==
    \E i \in 1..(Len(s) - Len(pattern) + 1) :
        /\ SubSeq(s, i, i + Len(pattern) - 1) = pattern
        /\ WordBoundary(s, i)
        /\ WordBoundary(s, i + Len(pattern))

(***************************************************************************)
(* Model names and restriction entries used as inputs                      *)
(***************************************************************************)

NoName == <<>>                                   \* None or ""
AUTO == <<"a","u","t","o">>
GPT_4 == <<"g","p","t","-","4">>
GPT_4_UPPER == <<"G","P","T","-","4">>
GPT_4_PADDED == <<" ","g","p","t","-","4"," ">>
GPT_4O == <<"g","p","t","-","4","o">>
GPT_4O_MINI == <<"g","p","t","-","4","o","-","m","i","n","i">>
O1_MINI == <<"o","1","-","m","i","n","i">>
TEXT_X == <<"t","e","x","t","-","x">>
GPT_52 == <<"g","p","t","-","5",".","2">>
GPT5_TYPO == <<"G","P","T","5">>
GEMINI_25_PRO == <<"g","e","m","i","n","i","-","2",".","5","-","p","r","o">>
GEMINI_25_FLASH == <<"g","e","m","i","n","i","-","2",".","5","-","f","l","a","s","h">>
GEMINI_20_FLASH_EXP == <<"g","e","m","i","n","i","-","2",".","0","-","f","l","a","s","h","-","e","x","p">>
GEMINI_15_FLASH == <<"g","e","m","i","n","i","-","1",".","5","-","f","l","a","s","h">>
FLASH == <<"f","l","a","s","h">>
PRO == <<"p","r","o">>
MINI == <<"m","i","n","i">>
MINI_UPPER == <<"M","I","N","I">>
CLAUDE_3 == <<"c","l","a","u","d","e","-","3">>
LLAMA_3 == <<"l","l","a","m","a","-","3">>
O3 == <<"o", "3">>
GPT_5 == <<"g", "p", "t", "-", "5">>
GEMINI_15_PRO == <<"g", "e", "m", "i", "n", "i", "-", "1", ".", "5", "-", "p", "r", "o">>
CLAUDE_35_SONNET ==
    <<"c", "l", "a", "u", "d", "e", "-", "3", "-", "5", "-", "s", "o", "n", "n", "e", "t", "-", "2", "0", "2", "4", "1", "0", "2", "2">>
BLANK == <<" ">>

(***************************************************************************)
(* utils/models.py: ModelRestrictionService                                *)
(***************************************************************************)

\* [m.lower().strip() for m in raw if m.strip()]
LoadList(raw) ==
    {Strip(Lower(raw[i])) : i \in {j \in 1..Len(raw) : Strip(raw[j]) # <<>>}}

load_restrictions(e) ==
    [openai_allowed    |-> LoadList(e.OPENAI_ALLOWED_MODELS),
     google_allowed    |-> LoadList(e.GOOGLE_ALLOWED_MODELS),
     anthropic_allowed |-> LoadList(e.ANTHROPIC_ALLOWED_MODELS),
     blocked_models    |-> LoadList(e.BLOCKED_MODELS),
     disabled_patterns |-> LoadList(e.DISABLED_MODEL_PATTERNS)]

OpenAIPrefixes == {<<"g","p","t">>, <<"o","1">>, <<"o","3">>, <<"t","e","x","t","-">>}
GooglePrefix == <<"g","e","m","i","n","i">>
AnthropicPrefix == <<"c","l","a","u","d","e">>

\* a variant that consults the provider allow-lists before the block list
is_model_allowed_allowlist_first(R, model_name) ==
    LET model_lower == Lower(model_name)
    IN  IF model_lower \in R.openai_allowed \cup R.google_allowed \cup R.anthropic_allowed
        THEN TRUE
        ELSE IF model_lower \in R.blocked_models THEN FALSE
        ELSE IF \E pattern \in R.disabled_patterns : ReSearchWord(pattern, model_lower)
             THEN FALSE
        ELSE IF \E p \in OpenAIPrefixes : StartsWith(model_lower, p)
             THEN R.openai_allowed = {}
        ELSE IF StartsWith(model_lower, GooglePrefix) \/ model_lower \in {FLASH, PRO}
             THEN R.google_allowed = {}
        ELSE IF StartsWith(model_lower, AnthropicPrefix)
             THEN R.anthropic_allowed = {}
        ELSE TRUE

is_model_allowed(R, model_name) ==
    LET model_lower == Lower(model_name)
    IN  IF model_lower \in R.blocked_models THEN FALSE
        ELSE IF \E pattern \in R.disabled_patterns : ReSearchWord(pattern, model_lower)
             THEN FALSE
        ELSE IF \E p \in OpenAIPrefixes : StartsWith(model_lower, p)
             THEN ~(R.openai_allowed # {} /\ model_lower \notin R.openai_allowed)
        ELSE IF StartsWith(model_lower, GooglePrefix) \/ model_lower \in {FLASH, PRO}
             THEN ~(R.google_allowed # {} /\ model_lower \notin R.google_allowed)
        ELSE IF StartsWith(model_lower, AnthropicPrefix)
             THEN ~(R.anthropic_allowed # {} /\ model_lower \notin R.anthropic_allowed)
        ELSE TRUE

(***************************************************************************)
(* utils/memory.py: ConversationMemory                                     *)
(***************************************************************************)

\* Python's None where a record is expected
None == [is_none |-> TRUE]

\* the arguments of a request
Arguments(mode, prompt, files, model, continuation_id, output_file) ==
    [mode |-> mode, prompt |-> prompt, files |-> files, model |-> model,
     continuation_id |-> continuation_id, output_file |-> output_file]

\* initial_request or {}
EmptyArgs == <<>>

MaxClock == 1

\* datetime.now(): the clock may have advanced since the last reading
ClockReadings(c) == {t \in c..(c + 1) : t <= MaxClock}

ConversationTurn(role, content, timestamp, files, tool_name, model_name, mode) ==
    [role |-> role, content |-> content, timestamp |-> timestamp, files |-> files,
     tool_name |-> tool_name, model_name |-> model_name, mode |-> mode]

\* uuid.uuid4(): an id no earlier call returned
uuid4(T) == Cardinality(DOMAIN T) + 1

\* create_thread: the store with the new thread in it; the id returned is uuid4(T)
create_thread(T, now, tool_name, mode, initial_request) ==
    LET thread_id == uuid4(T)
    IN  [t \in DOMAIN T \cup {thread_id} |->
            IF t = thread_id
            THEN [thread_id |-> thread_id, tool_name |-> tool_name, mode |-> mode,
                  created_at |-> now, last_updated |-> now, turns |-> <<>>,
                  initial_request |-> initial_request]
            ELSE T[t]]

\* a variant that lists the turns newest first
get_thread_newest_first(T, thread_id) ==
    IF thread_id \notin DOMAIN T THEN None
    ELSE [thread_id |-> T[thread_id].thread_id,
          tool_name |-> T[thread_id].tool_name,
          mode |-> T[thread_id].mode,
          created_at |-> T[thread_id].created_at,
          last_updated |-> T[thread_id].last_updated,
          turns |-> [i \in 1..Len(T[thread_id].turns) |->
                        T[thread_id].turns[Len(T[thread_id].turns) + 1 - i]],
          initial_request |-> T[thread_id].initial_request]

\* get_thread: None for an unknown id, else the thread as a dictionary
get_thread(T, thread_id) ==
    IF thread_id \notin DOMAIN T THEN None
    ELSE [thread_id |-> T[thread_id].thread_id,
          tool_name |-> T[thread_id].tool_name,
          mode |-> T[thread_id].mode,
          created_at |-> T[thread_id].created_at,
          last_updated |-> T[thread_id].last_updated,
          turns |-> T[thread_id].turns,
          initial_request |-> T[thread_id].initial_request]

\* a variant that reports success whatever the id
add_turn_ok_always(T, thread_id) ==
    TRUE

\* add_turn's return value
add_turn_ok(T, thread_id) ==
    thread_id \in DOMAIN T

\* a variant in which every thread shares one turns list
add_turn_shared_list(T, thread_id, turn) ==
    IF thread_id \notin DOMAIN T THEN T
    ELSE [t \in DOMAIN T |-> [T[t] EXCEPT !.turns = Append(@, turn),
                                          !.last_updated = turn.timestamp]]

\* add_turn: the store afterwards (unchanged when the thread is unknown)
add_turn(T, thread_id, turn) ==
    IF thread_id \notin DOMAIN T THEN T
    ELSE [T EXCEPT ![thread_id].turns = Append(@, turn),
                   ![thread_id].last_updated = turn.timestamp]

\* the record of successful add_turn calls after one more call
LogAdd(L, T, thread_id, turn) ==
    IF add_turn_ok(T, thread_id)
    THEN [L EXCEPT ![thread_id] = Append(@, [role |-> turn.role, content |-> turn.content])]
    ELSE L

\* the record of successful add_turn calls after create_thread
LogCreate(L, T) == [t \in DOMAIN T \cup {uuid4(T)} |-> IF t \in DOMAIN T THEN L[t] ELSE <<>>]

MaxThreads == 2
MaxTurns == 3
MaxCalls == 2
MemFiles == {<<"/w/a.py">>}

\* an id create_thread has not returned
UnknownId == MaxThreads + MaxCalls + 1

\* the message of an add_turn call names the thread it is meant for and its
\* position there (the tests use "Thread 1 user message", "Turn i")
Message(thread_id) ==
    [for |-> thread_id,
     n |-> IF thread_id \in DOMAIN log THEN Len(log[thread_id]) + 1 ELSE 1]

\* create_thread(tool_name, mode) is called
CreateThread(tool_name, mode) ==
    /\ Cardinality(DOMAIN threads) < MaxThreads
    /\ \E now \in ClockReadings(clock) :
          /\ threads' = create_thread(threads, now, tool_name, mode, EmptyArgs)
          /\ clock' = now
    /\ log' = LogCreate(log, threads)
    /\ ret' = [ret EXCEPT !.op = "create_thread", !.thread_id = uuid4(threads),
                          !.value = TRUE]
    /\ UNCHANGED <<env, restrictions, models, providers, default_model, calls,
                   checked, selected, outputs>>

\* the number of turns the store holds
RECURSIVE SumTurns(_, _)
SumTurns(T, n) == IF n = 0 THEN 0 ELSE Len(T[n].turns) + SumTurns(T, n - 1)

TotalTurns(T) == SumTurns(T, Cardinality(DOMAIN T))

\* add_turn(thread_id, role, content, files) is called
AddTurn(thread_id, role, files) ==
    /\ thread_id \in DOMAIN threads => TotalTurns(threads) < MaxTurns
    /\ \E now \in IF add_turn_ok(threads, thread_id) THEN ClockReadings(clock) ELSE {clock} :
          LET turn == ConversationTurn(role, Message(thread_id), now, files,
                                       "sage", NoName, "chat")
          IN  /\ threads' = add_turn(threads, thread_id, turn)
              /\ log' = LogAdd(log, threads, thread_id, turn)
              /\ clock' = now
    /\ ret' = [ret EXCEPT !.op = "add_turn", !.thread_id = thread_id,
                          !.value = add_turn_ok(threads, thread_id)]
    /\ UNCHANGED <<env, restrictions, models, providers, default_model, calls,
                   checked, selected, outputs>>

\* get_thread(thread_id) is called
GetThread(thread_id) ==
    /\ ret' = [op |-> "get_thread", thread_id |-> thread_id,
               value |-> get_thread(threads, thread_id) # None,
               snapshot |-> <<[thread_id |-> thread_id,
                               value |-> get_thread(threads, thread_id)]>>]
    /\ UNCHANGED <<env, restrictions, models, providers, default_model, threads, clock,
                   calls, checked, selected, log, outputs>>

(***************************************************************************)
(* Objects the store and its callers both hold.  A list or dictionary of   *)
(* the store that a caller also holds is named by its place in the store:  *)
(* turns are never moved or removed, so the place names the object.  When  *)
(* the caller changes such an object the store changes with it.            *)
(***************************************************************************)

\* the parts of the dictionary get_thread returns that are objects of the store:
\* "turns" is a new list of new dictionaries, "files" is turn.files itself and
\* "initial_request" is thread.initial_request itself
get_thread_shares == [turns |-> FALSE, files |-> TRUE, initial_request |-> TRUE]

\* files or []: add_turn keeps the caller's list unless it is empty
add_turn_keeps(files) == files # <<>>

\* the path a caller adds to a files list it holds
AddedPath == "/w/b.py"

InSeq(x, xs) == \E k \in 1..Len(xs) : xs[k] = x

\* the caller has a snapshot of an existing thread in hand
HoldsSnapshot == ret.snapshot # <<>> /\ ret.snapshot[1].value # None

\* the caller empties the turns list of the snapshot it holds
MutateReturnedTurns ==
    /\ HoldsSnapshot
    /\ ret.snapshot[1].value.turns # <<>>
    /\ ret' = [ret EXCEPT !.op = "mutate", !.snapshot[1].value.turns = <<>>]
    /\ threads' = IF get_thread_shares.turns
                  THEN [threads EXCEPT ![ret.snapshot[1].thread_id].turns = <<>>]
                  ELSE threads
    /\ UNCHANGED <<env, restrictions, models, providers, default_model, clock, calls,
                   checked, selected, log, outputs>>

\* the caller appends a path to the files list of turn i of the snapshot it holds
MutateReturnedFiles(i) ==
    /\ HoldsSnapshot
    /\ i \in 1..Len(ret.snapshot[1].value.turns)
    /\ ~InSeq(AddedPath, ret.snapshot[1].value.turns[i].files)
    /\ ret' = [ret EXCEPT !.op = "mutate",
                          !.snapshot[1].value.turns[i].files = Append(@, AddedPath)]
    /\ threads' = IF get_thread_shares.files
                  THEN [threads EXCEPT ![ret.snapshot[1].thread_id].turns[i].files =
                                           Append(@, AddedPath)]
                  ELSE threads
    /\ UNCHANGED <<env, restrictions, models, providers, default_model, clock, calls,
                   checked, selected, log, outputs>>

\* the caller sets a key of the initial_request of the snapshot it holds
MutateReturnedRequest ==
    /\ HoldsSnapshot
    /\ ret.snapshot[1].value.initial_request = EmptyArgs
    /\ ret' = [ret EXCEPT !.op = "mutate",
                          !.snapshot[1].value.initial_request = [prompt |-> "edited"]]
    /\ threads' = IF get_thread_shares.initial_request
                  THEN [threads EXCEPT ![ret.snapshot[1].thread_id].initial_request =
                                           [prompt |-> "edited"]]
                  ELSE threads
    /\ UNCHANGED <<env, restrictions, models, providers, default_model, clock, calls,
                   checked, selected, log, outputs>>

\* the caller appends a path to the files list it has just passed to add_turn;
\* a snapshot in hand that shows the same list shows the change as well
MutatePassedFiles ==
    /\ ret.op = "add_turn"
    /\ ret.value
    /\ LET t == ret.thread_id
           i == Len(threads[t].turns)
           seen == /\ HoldsSnapshot
                   /\ ret.snapshot[1].thread_id = t
                   /\ i <= Len(ret.snapshot[1].value.turns)
                   /\ get_thread_shares.files
       IN  /\ add_turn_keeps(threads[t].turns[i].files)
           /\ ~InSeq(AddedPath, threads[t].turns[i].files)
           /\ threads' = [threads EXCEPT ![t].turns[i].files = Append(@, AddedPath)]
           /\ ret' = IF seen
                     THEN [ret EXCEPT !.op = "mutate",
                                      !.snapshot[1].value.turns[i].files =
                                          Append(@, AddedPath)]
                     ELSE [ret EXCEPT !.op = "mutate"]
    /\ UNCHANGED <<env, restrictions, models, providers, default_model, clock, calls,
                   checked, selected, log, outputs>>

(***************************************************************************)
(* models/manager.py: ModelManager                                         *)
(*                                                                         *)
(* A model's configuration is a dictionary; dict.get(key, default) is Get. *)
(* Scores are multiples of 0.5 in the code and are kept doubled here, so   *)
(* that they are integers (+3.0 is 6, -5.0 is -10, (10 - p) * 0.5 is       *)
(* 10 - p).                                                                *)
(***************************************************************************)

EmptyDict == <<>>

Get(d, key, default) == IF key \in DOMAIN d THEN d[key] ELSE default

\* the position of the entry for name in the catalog M, 0 when there is none
IndexOf(M, name) ==
    IF \E i \in 1..Len(M) : M[i].name = name
    THEN CHOOSE i \in 1..Len(M) : M[i].name = name
    ELSE 0

\* self.models.get(model_name, {})
ModelConfig(M, name) == IF IndexOf(M, name) = 0 THEN EmptyDict ELSE M[IndexOf(M, name)].config

\* a variant that lists the catalog from its last entry to its first
get_all_models_reversed(M) ==
    [i \in 1..Len(M) |-> M[Len(M) + 1 - i].name]

\* get_all_models
get_all_models(M) == [i \in 1..Len(M) |-> M[i].name]

\* get_provider_for_model: "" stands for None
get_provider_for_model(M, name) ==
    IF IndexOf(M, name) = 0 THEN "" ELSE Get(ModelConfig(M, name), "provider", "")

\* the configuration file carries no selection_rules section: the defaults apply
selection_rules == EmptyDict

HighFileCount == 5
HighTokenCount == 50000
MediumFileCount == 2
MediumTokenCount == 10000

\* a variant whose thresholds are exclusive
_determine_complexity_exclusive(mode, tokens, files) ==
    LET rules  == Get(selection_rules, "complexity_indicators", EmptyDict)
        high   == Get(rules, "high", EmptyDict)
        medium == Get(rules, "medium", EmptyDict)
    IN  IF \/ files > Get(high, "file_count", HighFileCount)
           \/ tokens > Get(high, "token_count", HighTokenCount)
           \/ mode \in {"think", "analyze"}
        THEN "high"
        ELSE IF \/ files > Get(medium, "file_count", MediumFileCount)
                \/ tokens > Get(medium, "token_count", MediumTokenCount)
                \/ mode \in {"debug", "review", "plan", "refactor", "test"}
             THEN "medium"
             ELSE "low"

_determine_complexity(mode, tokens, files) ==
    LET rules  == Get(selection_rules, "complexity_indicators", EmptyDict)
        high   == Get(rules, "high", EmptyDict)
        medium == Get(rules, "medium", EmptyDict)
    IN  IF \/ files >= Get(high, "file_count", HighFileCount)
           \/ tokens >= Get(high, "token_count", HighTokenCount)
           \/ mode \in {"think", "analyze"}
        THEN "high"
        ELSE IF \/ files >= Get(medium, "file_count", MediumFileCount)
                \/ tokens >= Get(medium, "token_count", MediumTokenCount)
                \/ mode \in {"debug", "review", "plan", "refactor", "test"}
             THEN "medium"
             ELSE "low"

\* Python compares str values lexicographically: "high" < "low" < "medium"
PyStrRank == [high |-> 0, low |-> 1, medium |-> 2]

PyStrGeq(a, b) == PyStrRank[a] >= PyStrRank[b]

DefaultContextLimit == 100000
DefaultPriority == 5

\* the points the complexity matching of _score_model adds, doubled
complexity_matching(model_complexity, complexity) ==
    IF complexity = Get(model_complexity, "optimal", "")
    THEN 4
    ELSE IF PyStrGeq(complexity, Get(model_complexity, "min", "low")) THEN 2
    ELSE 0

\* _score_model, doubled
_score_model(M, model_name, mode, complexity, tokens) ==
    LET config == ModelConfig(M, model_name)
        modes  == Get(config, "modes", EmptyDict)
        model_complexity == Get(config, "complexity", EmptyDict)
        capabilities == Get(config, "capabilities", EmptyDict)
        context_limit == Get(capabilities, "context_limit", DefaultContextLimit)
        priority == Get(config, "selection_priority", DefaultPriority)
        mode_score ==
            IF mode \in Get(modes, "preferred", {}) THEN 6
            ELSE IF mode \in Get(modes, "suitable", {}) THEN 2
            ELSE 0
        complexity_score == complexity_matching(model_complexity, complexity)
        context_score ==
            IF tokens > context_limit THEN -10
            ELSE IF 10 * tokens < context_limit /\ Get(capabilities, "cost", "") = "very_high"
                 THEN -2
            ELSE 0
        speed_score ==
            IF complexity = "low" /\ Get(capabilities, "speed", "") = "very_fast"
            THEN 2 ELSE 0
    IN  mode_score + complexity_score + context_score + (10 - priority) + speed_score

LargeContextTokens == 100000

\* _generate_selection_reasoning: the parts of the string, in order
_generate_selection_reasoning(M, model, mode, complexity, tokens, files) ==
    LET config == ModelConfig(M, model)
        parts  == <<"Selected for:", "mode=" \o mode, "complexity=" \o complexity,
                    "tokens=" \o ToString(tokens), "files=" \o ToString(files)>>
        pref   == IF mode \in Get(Get(config, "modes", EmptyDict), "preferred", {})
                  THEN <<"preferred for mode">> ELSE <<>>
        large  == IF tokens > LargeContextTokens THEN <<"large context">> ELSE <<>>
    IN  parts \o pref \o large

\* the hard-coded default of select_model_for_task
FallbackModel == GEMINI_15_FLASH

\* sorted(model_scores.items(), key=score, reverse=True)[0][0]: the sort is
\* stable, so of the models with the highest score the first in catalog order
SortedFirst(available_models, score(_)) ==
    available_models[CHOOSE i \in 1..Len(available_models) :
        \A j \in 1..Len(available_models) :
            /\ score(available_models[j]) <= score(available_models[i])
            /\ j < i => score(available_models[j]) < score(available_models[i])]

\* a variant whose early return for an empty candidate list gives no model
select_model_for_task_no_default(M, mode, prompt_size, file_count, conversation_context, allowed_models) ==
    LET estimated_tokens ==
            (prompt_size \div 4)
            + (IF conversation_context # <<>> THEN conversation_context[1] \div 4 ELSE 0)
        complexity == _determine_complexity(mode, estimated_tokens, file_count)
        all == get_all_models(M)
        available_models ==
            IF allowed_models # {}
            THEN SelectSeq(all, LAMBDA m : m \in allowed_models)
            ELSE all
        Score(m) == _score_model(M, m, mode, complexity, estimated_tokens)
    IN  IF available_models = <<>>
        THEN [model |-> NoName, reasoning |-> <<>>]
        ELSE LET sel == SortedFirst(available_models, Score)
             IN  [model |-> sel,
                  reasoning |-> _generate_selection_reasoning(
                                   M, sel, mode, complexity, estimated_tokens, file_count)]

\* conversation_context is <<>> for None and <<n>> for a thread whose str() has
\* n characters; allowed_models is a set, {} standing for None and for [].
select_model_for_task(M, mode, prompt_size, file_count, conversation_context, allowed_models) ==
    LET estimated_tokens ==
            (prompt_size \div 4)
            + (IF conversation_context # <<>> THEN conversation_context[1] \div 4 ELSE 0)
        complexity == _determine_complexity(mode, estimated_tokens, file_count)
        all == get_all_models(M)
        available_models ==
            IF allowed_models # {}
            THEN SelectSeq(all, LAMBDA m : m \in allowed_models)
            ELSE all
        Score(m) == _score_model(M, m, mode, complexity, estimated_tokens)
    IN  IF available_models = <<>>
        THEN [model |-> FallbackModel,
              reasoning |-> <<"No allowed models available, using default">>]
        ELSE LET sel == SortedFirst(available_models, Score)
             IN  [model |-> sel,
                  reasoning |-> _generate_selection_reasoning(
                                   M, sel, mode, complexity, estimated_tokens, file_count)]

(***************************************************************************)
(* select_best_model, the selector of utils/models.py                      *)
(***************************************************************************)

\* the complexity select_best_model determines
legacy_complexity(mode, estimated_tokens, file_count) ==
    IF file_count > 5 \/ estimated_tokens > 50000 THEN "high"
    ELSE IF file_count > 2 \/ estimated_tokens > 10000 THEN "medium"
    ELSE IF mode \in {"think", "analyze", "debug", "review"} THEN "medium"
    ELSE IF estimated_tokens > 2000 THEN "low"
    ELSE "minimal"

\* selected_model before it is verified against the restrictions
selected_model(R, mode, prompt_size, file_count, conversation_context) ==
    LET estimated_tokens ==
            (prompt_size \div 4)
            + (IF conversation_context # <<>> THEN conversation_context[1] \div 4 ELSE 0)
        complexity == legacy_complexity(mode, estimated_tokens, file_count)
    IN  IF estimated_tokens > 500000 THEN GEMINI_25_PRO
        ELSE IF complexity = "high"
        THEN IF mode \in {"think", "debug", "analyze"}
             THEN (IF is_model_allowed(R, O3) THEN O3 ELSE GEMINI_25_PRO)
             ELSE GEMINI_25_PRO
        ELSE IF complexity = "medium"
        THEN IF mode \in {"think", "analyze", "review"} THEN GEMINI_25_PRO
             ELSE IF mode \in {"plan", "refactor", "test"}
             THEN (IF is_model_allowed(R, GPT_5) THEN GPT_5 ELSE GEMINI_25_FLASH)
             ELSE GEMINI_25_FLASH
        ELSE IF mode = "chat" /\ estimated_tokens < 1000 THEN GEMINI_15_FLASH
        ELSE GEMINI_25_FLASH

\* the fallback chain
fallbacks == <<GEMINI_25_FLASH, GEMINI_15_FLASH, GEMINI_15_PRO>>

\* select_best_model: the first pick when it is allowed, else the first allowed
\* model of the chain, else the first pick as it stands
select_best_model(R, mode, prompt_size, file_count, conversation_context) ==
    LET first == selected_model(R, mode, prompt_size, file_count, conversation_context)
        allowed == {i \in 1..Len(fallbacks) : is_model_allowed(R, fallbacks[i])}
    IN  IF is_model_allowed(R, first) THEN first
        ELSE IF allowed # {}
             THEN fallbacks[CHOOSE i \in allowed : \A j \in allowed : i <= j]
        ELSE first

(***************************************************************************)
(* The file system the request paths are resolved against (utils/files.py, *)
(* utils/security.py).  The process runs in /w.                            *)
(***************************************************************************)

\* the regular files present before any request, all with an allowed extension
Files == {"/w/a.py", "/w/b.py", "/w/c.py", "/w/d/x.py"}

Directories == {"/w", "/w/d"}

\* every path a file can have, in directory-listing order
AllFilePaths == <<"/w/a.py", "/w/b.py", "/w/c.py", "/w/d/x.py", "/w/out.md">>

\* the paths below a directory
Under(dir) ==
    CASE dir = "/w/d" -> {"/w/d/x.py"}
      [] dir = "/w" -> {"/w/a.py", "/w/b.py", "/w/c.py", "/w/d/x.py", "/w/out.md"}
      [] OTHER -> {}

\* str(path) contains ".."
HasDotDot(p) == p \in {"/w/d/../a.py"}

\* Path(p).is_absolute()
IsAbsolute(p) == p # "a.py"

\* Path(p).resolve()
Resolve(p) ==
    CASE p = "a.py" -> "/w/a.py"
      [] p = "/w/d/../a.py" -> "/w/a.py"
      [] OTHER -> p

\* os.walk(dir) over the files F, keeping the files with an allowed extension
Walk(F, dir) == SelectSeq(AllFilePaths, LAMBDA p : p \in F /\ p \in Under(dir))

is_safe_path(F, p) ==
    /\ ~HasDotDot(p)
    /\ Resolve(p) \in F

validate_paths(F, paths) == \A i \in 1..Len(paths) : is_safe_path(F, paths[i])

RECURSIVE expand_paths(_, _)
expand_paths(F, paths) ==
    IF paths = <<>> THEN <<>>
    ELSE LET abs_path == Resolve(Head(paths))
             here == IF abs_path \in F THEN <<abs_path>>
                     ELSE IF abs_path \in Directories THEN Walk(F, abs_path)
                     ELSE <<>>
         IN  here \o expand_paths(F, Tail(paths))

(***************************************************************************)
(* providers/__init__.py                                                   *)
(***************************************************************************)

\* get_provider: the name of the provider object returned, "" for None.  No
\* model name used here is in a provider's MODELS list without also matching
\* one of the prefix branches, so the final search over list_models() finds
\* nothing.
get_provider(M, P, model) ==
    LET provider_name == get_provider_for_model(M, model)
        Registered(name) == IF name \in P THEN name ELSE ""
    IN  IF provider_name # "" THEN Registered(provider_name)
        ELSE IF StartsWith(model, <<"g","e","m","i","n","i">>) THEN Registered("gemini")
        ELSE IF \E pre \in {<<"g","p","t">>, <<"o","1">>, <<"o","3">>} : StartsWith(model, pre)
             THEN Registered("openai")
        ELSE IF StartsWith(model, <<"c","l","a","u","d","e">>) THEN Registered("anthropic")
        ELSE IF \E i \in 1..Len(model) : model[i] = "/" THEN Registered("openrouter")
        ELSE IF \E pre \in {<<"l","l","a","m","a">>, <<"m","i","x","t","r","a","l">>} :
                    StartsWith(model, pre)
             THEN Registered("custom")
        ELSE ""

\* list_available_models()["available_models"]
list_available_models(M, P) ==
    SelectSeq(get_all_models(M), LAMBDA m : get_provider_for_model(M, m) \in P)

(***************************************************************************)
(* tools/sage.py: SageTool                                                 *)
(***************************************************************************)

\* modes.MODES
MODES == {"chat", "analyze", "review", "debug", "plan", "test", "refactor", "think"}

\* the table of _validate_request: <<variant, canonical name>>, the canonical
\* name being empty (None) for the names that are refused
model_corrections ==
    {
     <<<<"g","e","m","i","n","i"," ","3"," ","p","r","o">>,
       <<"g","e","m","i","n","i","-","3","-","p","r","o","-","p","r","e","v","i","e","w">>>>,
     <<<<"g","e","m","i","n","i","-","3"," ","p","r","o">>,
       <<"g","e","m","i","n","i","-","3","-","p","r","o","-","p","r","e","v","i","e","w">>>>,
     <<<<"g","e","m","i","n","i","3","p","r","o">>,
       <<"g","e","m","i","n","i","-","3","-","p","r","o","-","p","r","e","v","i","e","w">>>>,
     <<<<"g","e","m","i","n","i","-","3","-","p","r","o">>,
       <<"g","e","m","i","n","i","-","3","-","p","r","o","-","p","r","e","v","i","e","w">>>>,
     <<<<"g","e","m","i","n","i"," ","3"," ","f","l","a","s","h">>,
       <<"g","e","m","i","n","i","-","3","-","f","l","a","s","h","-","p","r","e","v","i","e","w">>>>,
     <<<<"g","e","m","i","n","i","-","3"," ","f","l","a","s","h">>,
       <<"g","e","m","i","n","i","-","3","-","f","l","a","s","h","-","p","r","e","v","i","e","w">>>>,
     <<<<"g","e","m","i","n","i","3","f","l","a","s","h">>,
       <<"g","e","m","i","n","i","-","3","-","f","l","a","s","h","-","p","r","e","v","i","e","w">>>>,
     <<<<"g","e","m","i","n","i","-","3","-","f","l","a","s","h">>,
       <<"g","e","m","i","n","i","-","3","-","f","l","a","s","h","-","p","r","e","v","i","e","w">>>>,
     <<<<"g","e","m","i","n","i"," ","2",".","5"," ","p","r","o">>,
       <<"g","e","m","i","n","i","-","2",".","5","-","p","r","o">>>>,
     <<<<"g","e","m","i","n","i","-","2",".","5"," ","p","r","o">>,
       <<"g","e","m","i","n","i","-","2",".","5","-","p","r","o">>>>,
     <<<<"g","e","m","i","n","i"," ","2",".","5"," ","f","l","a","s","h">>,
       <<"g","e","m","i","n","i","-","2",".","5","-","f","l","a","s","h">>>>,
     <<<<"g","p","t","5">>,
       <<"g","p","t","-","5",".","2">>>>,
     <<<<"g","p","t"," ","5">>,
       <<"g","p","t","-","5",".","2">>>>,
     <<<<"g","p","t","-","5">>,
       <<"g","p","t","-","5",".","2">>>>,
     <<<<"g","p","t","5",".","2">>,
       <<"g","p","t","-","5",".","2">>>>,
     <<<<"g","p","t"," ","5",".","2">>,
       <<"g","p","t","-","5",".","2">>>>,
     <<<<"c","l","a","u","d","e"," ","o","p","u","s"," ","4",".","5">>,
       <<"c","l","a","u","d","e","-","o","p","u","s","-","4",".","5">>>>,
     <<<<"c","l","a","u","d","e","-","o","p","u","s","-","4","-","5">>,
       <<"c","l","a","u","d","e","-","o","p","u","s","-","4",".","5">>>>,
     <<<<"c","l","a","u","d","e"," ","s","o","n","n","e","t"," ","4",".","5">>,
       <<"c","l","a","u","d","e","-","s","o","n","n","e","t","-","4",".","5">>>>,
     <<<<"c","l","a","u","d","e","-","s","o","n","n","e","t","-","4","-","5">>,
       <<"c","l","a","u","d","e","-","s","o","n","n","e","t","-","4",".","5">>>>,
     <<<<"c","l","a","u","d","e"," ","o","p","u","s"," ","4",".","1">>,
       <<"c","l","a","u","d","e","-","o","p","u","s","-","4",".","5">>>>,
     <<<<"c","l","a","u","d","e","-","o","p","u","s","-","4",".","1">>,
       <<"c","l","a","u","d","e","-","o","p","u","s","-","4",".","5">>>>,
     <<<<"c","l","a","u","d","e"," ","s","o","n","n","e","t"," ","4">>,
       <<"c","l","a","u","d","e","-","s","o","n","n","e","t","-","4",".","5">>>>,
     <<<<"c","l","a","u","d","e","-","s","o","n","n","e","t","-","4">>,
       <<"c","l","a","u","d","e","-","s","o","n","n","e","t","-","4",".","5">>>>,
     <<<<"d","e","e","p","s","e","e","k"," ","v","3">>,
       <<"d","e","e","p","s","e","e","k","-","c","h","a","t">>>>,
     <<<<"d","e","e","p","s","e","e","k","-","v","3">>,
       <<"d","e","e","p","s","e","e","k","-","c","h","a","t">>>>,
     <<<<"d","e","e","p","s","e","e","k"," ","v","3",".","2">>,
       <<"d","e","e","p","s","e","e","k","-","c","h","a","t">>>>,
     <<<<"g","e","m","i","n","i","-","2",".","0","-","f","l","a","s","h","-","e","x","p">>,
       <<>>>>,
     <<<<"g","e","m","i","n","i","-","2",".","0","-","f","l","a","s","h","-","t","h","i","n","k","i","n","g","-","e","x","p">>,
       <<>>>>,
     <<<<"g","e","m","i","n","i","-","e","x","p","-","1","2","0","6">>,
       <<>>>>,
     <<<<"g","e","m","i","n","i","-","e","x","p","-","1","1","2","1">>,
       <<>>>>
    }

Corrected(lower_model) ==
    (CHOOSE pair \in model_corrections : pair[1] = lower_model)[2]

\* _get_available_models, as a set
_get_available_models(R, M, P) ==
    LET all_models == list_available_models(M, P)
    IN  {all_models[i] : i \in {j \in 1..Len(all_models) : is_model_allowed(R, all_models[j])}}

\* a variant that drops a refused model from the request instead of raising
_validate_request_drops_model(R, F, arguments) ==
    LET original_model == arguments.model
        lower_model == Strip(Lower(original_model))
        in_table == /\ original_model # NoName
                    /\ \E pair \in model_corrections : pair[1] = lower_model
        corrected == IF in_table /\ Corrected(lower_model) # NoName
                     THEN [arguments EXCEPT !.model = Corrected(lower_model)]
                     ELSE arguments
        request == IF corrected.model # NoName /\ ~is_model_allowed(R, corrected.model)
                   THEN [corrected EXCEPT !.model = NoName]
                   ELSE corrected
    IN  IF in_table /\ Corrected(lower_model) = NoName
        THEN [ok |-> FALSE, error |-> "outdated model", request |-> arguments]
        ELSE IF request.files # <<>> /\ ~validate_paths(F, request.files)
             THEN [ok |-> FALSE, error |-> "invalid file paths", request |-> request]
        ELSE [ok |-> TRUE, error |-> "", request |-> request]

\* _validate_request: the parsed request, or the error raised
_validate_request(R, F, arguments) ==
    LET original_model == arguments.model
        lower_model == Strip(Lower(original_model))
        in_table == /\ original_model # NoName
                    /\ \E pair \in model_corrections : pair[1] = lower_model
        request == IF in_table /\ Corrected(lower_model) # NoName
                   THEN [arguments EXCEPT !.model = Corrected(lower_model)]
                   ELSE arguments
    IN  IF in_table /\ Corrected(lower_model) = NoName
        THEN [ok |-> FALSE, error |-> "outdated model", request |-> arguments]
        ELSE IF request.model # NoName /\ ~is_model_allowed(R, request.model)
             THEN [ok |-> FALSE, error |-> "model not allowed", request |-> request]
        ELSE IF request.files # <<>> /\ ~validate_paths(F, request.files)
             THEN [ok |-> FALSE, error |-> "invalid file paths", request |-> request]
        ELSE [ok |-> TRUE, error |-> "", request |-> request]

\* _get_conversation_files: list(set(...)), used only for membership
_get_conversation_files(conversation_context) ==
    UNION {{conversation_context.turns[i].files[k] :
               k \in 1..Len(conversation_context.turns[i].files)} :
           i \in 1..Len(conversation_context.turns)}

\* a variant that falls back to the newest thread when the id names none
_prepare_conversation_context_newest(T, continuation_id) ==
    LET conversation_context ==
            IF continuation_id = <<>> THEN None
            ELSE IF continuation_id[1] \in DOMAIN T THEN get_thread(T, continuation_id[1])
            ELSE IF DOMAIN T # {} THEN get_thread(T, Cardinality(DOMAIN T))
            ELSE None
    IN  [conversation_context |-> conversation_context,
         embedded_files |-> IF conversation_context # None
                            THEN _get_conversation_files(conversation_context)
                            ELSE {}]

\* _prepare_conversation_context; continuation_id is <<>> for None, <<id>> otherwise
_prepare_conversation_context(T, continuation_id) ==
    LET conversation_context ==
            IF continuation_id # <<>> THEN get_thread(T, continuation_id[1]) ELSE None
    IN  [conversation_context |-> conversation_context,
         embedded_files |-> IF conversation_context # None
                            THEN _get_conversation_files(conversation_context)
                            ELSE {}]

\* a variant that skips the filter against the conversation history
_process_files_no_dedup(F, files, embedded_files) ==
    LET expanded_files == expand_paths(F, files)
    IN  [new_files |-> expanded_files, read |-> expanded_files]

\* _process_files: the new files, and the files handed to read_files
_process_files(F, files, embedded_files) ==
    LET expanded_files == expand_paths(F, files)
        new_files ==
            IF files = <<>> THEN <<>>
            ELSE IF embedded_files # {}
                 THEN SelectSeq(expanded_files, LAMBDA f : f \notin embedded_files)
                 ELSE expanded_files
    IN  [new_files |-> new_files, read |-> new_files]

\* _select_model_and_provider; context_chars is len(str(conversation_context))
_select_model_and_provider(R, M, P, D, request, conversation_context, context_chars, new_files) ==
    LET model_name0 == IF request.model # NoName THEN request.model ELSE D
        model_name ==
            IF model_name0 = AUTO \/ model_name0 = NoName
            THEN select_model_for_task(
                     M, request.mode, request.prompt.len, Len(new_files),
                     IF conversation_context # None THEN <<context_chars>> ELSE <<>>,
                     _get_available_models(R, M, P)).model
            ELSE model_name0
    IN  [model_name |-> model_name, provider |-> get_provider(M, P, model_name)]

\* the state of an execute call that has not been made yet; a call that was
\* made keeps the arguments it was given beside the request parsed from them
IdleCall == [pc |-> "idle"]

\* execute up to the await of handler.handle (steps 1 to 6): the call either
\* returns an error object or waits for the provider's complete()
ExecuteToAwait(R, M, P, D, T, F, arguments, context_chars) ==
    LET v   == _validate_request(R, F, arguments)
        request == v.request
        ctx == _prepare_conversation_context(T, request.continuation_id)
        pf  == _process_files(F, request.files, ctx.embedded_files)
        sm  == _select_model_and_provider(R, M, P, D, request, ctx.conversation_context,
                                          context_chars, pf.new_files)
        base == [pc |-> "error", error |-> v.error, arguments |-> arguments,
                 request |-> request,
                 conversation_context |-> None, embedded_files |-> {},
                 new_files |-> <<>>, read |-> <<>>, model_name |-> NoName,
                 provider |-> "", result |-> None, thread_id |-> <<>>,
                 response |-> None]
        located == [base EXCEPT !.conversation_context = ctx.conversation_context,
                                !.embedded_files = ctx.embedded_files,
                                !.new_files = pf.new_files,
                                !.read = pf.read,
                                !.model_name = sm.model_name]
    IN  IF ~v.ok THEN base
        ELSE IF sm.provider = "" THEN [located EXCEPT !.error = "no provider"]
        ELSE IF request.mode \notin MODES THEN [located EXCEPT !.error = "unknown mode"]
        ELSE [located EXCEPT !.pc = "awaiting", !.error = "", !.provider = sm.provider]

\* the length above which a response opens a new thread
SubstantialLength == 100

\* _write_output_to_file raises: the path is refused or the file exists
WriteRaises(F, file_path) ==
    \/ ~IsAbsolute(file_path)
    \/ HasDotDot(file_path)
    \/ file_path \in F

\* a variant that adds the assistant turn to the newest thread of the store
ExecuteAfterAwait_newest_thread(T, L, O, call, result, now1, now2, now3) ==
    LET request == call.request
        create == request.continuation_id = <<>> /\ result.len > SubstantialLength
        T1 == IF create
              THEN create_thread(T, now1, "sage", request.mode, request)
              ELSE T
        L1 == IF create THEN LogCreate(L, T) ELSE L
        thread_id == IF create THEN <<uuid4(T)>> ELSE request.continuation_id
        newest == Cardinality(DOMAIN T1)
        user == ConversationTurn("user", request.prompt, now2, request.files,
                                 "sage", call.model_name, request.mode)
        assistant == ConversationTurn("assistant", result, now3, <<>>,
                                      "sage", call.model_name, request.mode)
        T2 == IF thread_id # <<>> THEN add_turn(T1, thread_id[1], user) ELSE T1
        L2 == IF thread_id # <<>> THEN LogAdd(L1, T1, thread_id[1], user) ELSE L1
        T3 == IF thread_id # <<>> THEN add_turn(T2, newest, assistant) ELSE T2
        L3 == IF thread_id # <<>> THEN LogAdd(L2, T2, newest, assistant) ELSE L2
    IN  [threads |-> T3,
         log |-> L3,
         outputs |-> O,
         call |-> [call EXCEPT !.pc = "done",
                               !.error = "",
                               !.result = result,
                               !.thread_id = thread_id,
                               !.response = [kind |-> "result", result |-> result]]]

\* execute after the await (steps 7 to 9), the provider having returned result;
\* now1, now2, now3 are the clock readings of create_thread and the two add_turn
ExecuteAfterAwait(T, L, O, call, result, now1, now2, now3) ==
    LET request == call.request
        create == request.continuation_id = <<>> /\ result.len > SubstantialLength
        T1 == IF create
              THEN create_thread(T, now1, "sage", request.mode, request)
              ELSE T
        L1 == IF create THEN LogCreate(L, T) ELSE L
        thread_id == IF create THEN <<uuid4(T)>> ELSE request.continuation_id
        user == ConversationTurn("user", request.prompt, now2, request.files,
                                 "sage", call.model_name, request.mode)
        assistant == ConversationTurn("assistant", result, now3, <<>>,
                                      "sage", call.model_name, request.mode)
        T2 == IF thread_id # <<>> THEN add_turn(T1, thread_id[1], user) ELSE T1
        L2 == IF thread_id # <<>> THEN LogAdd(L1, T1, thread_id[1], user) ELSE L1
        T3 == IF thread_id # <<>> THEN add_turn(T2, thread_id[1], assistant) ELSE T2
        L3 == IF thread_id # <<>> THEN LogAdd(L2, T2, thread_id[1], assistant) ELSE L2
        raises == request.output_file # "" /\ WriteRaises(Files \cup O, request.output_file)
    IN  [threads |-> T3,
         log |-> L3,
         outputs |-> IF request.output_file # "" /\ ~raises
                     THEN O \cup {request.output_file} ELSE O,
         call |-> [call EXCEPT !.pc = IF raises THEN "error" ELSE "done",
                               !.error = IF raises THEN "output file" ELSE "",
                               !.result = result,
                               !.thread_id = thread_id,
                               !.response =
                                   IF raises THEN None
                                   ELSE IF request.output_file # ""
                                   THEN [kind |-> "saved", file |-> request.output_file]
                                   ELSE IF thread_id # <<>> /\ request.continuation_id = <<>>
                                   THEN [kind |-> "continuation offer", result |-> result,
                                         thread_id |-> thread_id[1]]
                                   ELSE [kind |-> "result", result |-> result]]]

\* a variant that stamps the assistant turn with a reading made before the
\* user turn's
ReadingsAfterAwait_response_first(T, call, result) ==
    LET request == call.request
        create == request.continuation_id = <<>> /\ result.len > SubstantialLength
        record == \/ create
                  \/ request.continuation_id # <<>> /\ request.continuation_id[1] \in DOMAIN T
    IN  {r \in (0..MaxClock) \X (0..MaxClock) \X (0..MaxClock) :
            /\ r[1] \in (IF create THEN ClockReadings(clock) ELSE {clock})
            /\ r[3] \in (IF record THEN ClockReadings(r[1]) ELSE {r[1]})
            /\ r[2] \in (IF record THEN ClockReadings(r[3]) ELSE {r[3]})}

\* the clock readings execute makes after the await: none when nothing is recorded
ReadingsAfterAwait(T, call, result) ==
    LET request == call.request
        create == request.continuation_id = <<>> /\ result.len > SubstantialLength
        record == \/ create
                  \/ request.continuation_id # <<>> /\ request.continuation_id[1] \in DOMAIN T
    IN  {r \in (0..MaxClock) \X (0..MaxClock) \X (0..MaxClock) :
            /\ r[1] \in (IF create THEN ClockReadings(clock) ELSE {clock})
            /\ r[2] \in (IF record THEN ClockReadings(r[1]) ELSE {r[1]})
            /\ r[3] \in (IF record THEN ClockReadings(r[2]) ELSE {r[2]})}

CallIds == 1..MaxCalls

\* a call begins: SageTool.execute runs up to the await of the provider
Execute(c, arguments, context_chars) ==
    /\ calls[c].pc = "idle"
    /\ c > 1 => calls[c - 1].pc # "idle"
    /\ calls' = [calls EXCEPT ![c] =
                    ExecuteToAwait(restrictions, models, providers, default_model,
                                   threads, Files \cup outputs, arguments, context_chars)]
    /\ UNCHANGED <<env, restrictions, models, providers, default_model, threads, clock,
                   checked, selected, log, ret, outputs>>

\* the provider's complete() returns result: the call records the turns and returns
ProviderReturns(c, result) ==
    /\ calls[c].pc = "awaiting"
    /\ \E r \in ReadingsAfterAwait(threads, calls[c], result) :
          LET after == ExecuteAfterAwait(threads, log, outputs, calls[c], result,
                                         r[1], r[2], r[3])
          IN  /\ threads' = after.threads
              /\ log' = after.log
              /\ outputs' = after.outputs
              /\ calls' = [calls EXCEPT ![c] = after.call]
              /\ clock' = r[3]
    /\ UNCHANGED <<env, restrictions, models, providers, default_model,
                   checked, selected, ret>>

\* a variant in which the user turn is recorded although complete() raised
ProviderRaises_records_user_turn(c) ==
    /\ calls[c].pc = "awaiting"
    /\ calls' = [calls EXCEPT ![c].pc = "error", ![c].error = "provider error"]
    /\ LET request == calls[c].request
           user == ConversationTurn("user", request.prompt, clock, request.files,
                                    "sage", calls[c].model_name, request.mode)
       IN  /\ threads' = IF request.continuation_id # <<>>
                         THEN add_turn(threads, request.continuation_id[1], user)
                         ELSE threads
           /\ log' = IF request.continuation_id # <<>>
                     THEN LogAdd(log, threads, request.continuation_id[1], user)
                     ELSE log
    /\ UNCHANGED <<env, restrictions, models, providers, default_model, clock,
                   checked, selected, ret, outputs>>

\* the provider's complete() raises: the call returns an error object
ProviderRaises(c) ==
    /\ calls[c].pc = "awaiting"
    /\ calls' = [calls EXCEPT ![c].pc = "error", ![c].error = "provider error"]
    /\ UNCHANGED <<env, restrictions, models, providers, default_model, threads, clock,
                   checked, selected, log, ret, outputs>>

\* a variant in which the request is recorded although the call was cancelled
Cancelled_records_request(c) ==
    /\ calls[c].pc = "awaiting"
    /\ calls' = [calls EXCEPT ![c].pc = "cancelled", ![c].error = "cancelled"]
    /\ LET request == calls[c].request
           user == ConversationTurn("user", request.prompt, clock, request.files,
                                    "sage", calls[c].model_name, request.mode)
       IN  /\ threads' = IF request.continuation_id # <<>>
                         THEN add_turn(threads, request.continuation_id[1], user)
                         ELSE create_thread(threads, clock, "sage", request.mode, request)
           /\ log' = IF request.continuation_id # <<>>
                     THEN LogAdd(log, threads, request.continuation_id[1], user)
                     ELSE LogCreate(log, threads)
    /\ UNCHANGED <<env, restrictions, models, providers, default_model, clock,
                   checked, selected, ret, outputs>>

\* the task running execute is cancelled while it awaits the provider:
\* CancelledError is raised at the await and leaves execute, whose handler
\* catches Exception only
Cancelled(c) ==
    /\ calls[c].pc = "awaiting"
    /\ calls' = [calls EXCEPT ![c].pc = "cancelled", ![c].error = "cancelled"]
    /\ UNCHANGED <<env, restrictions, models, providers, default_model, threads, clock,
                   checked, selected, log, ret, outputs>>

(***************************************************************************)
(* Pure calls, made observable as actions.  A behaviour makes one call: the *)
(* configuration is drawn by the initial state, the arguments by the       *)
(* action.                                                                 *)
(***************************************************************************)

\* ModelRestrictionService.is_model_allowed(model_name) is called
CheckModel(model_name) ==
    /\ checked = <<>>
    /\ checked' = <<[model_name |-> model_name,
                     allowed |-> is_model_allowed(restrictions, model_name)]>>
    /\ UNCHANGED <<env, restrictions, models, providers, default_model, threads, clock,
                   calls, selected, log, ret, outputs>>

\* ModelManager.select_model_for_task is called with an allowed_models argument
SelectModel(mode, prompt_size, file_count, conversation_context, allowed_models) ==
    /\ selected = <<>>
    /\ selected' = <<[via |-> "direct", mode |-> mode, prompt_size |-> prompt_size,
                      file_count |-> file_count,
                      conversation_context |-> conversation_context,
                      allowed_models |-> allowed_models,
                      result |-> select_model_for_task(models, mode, prompt_size, file_count,
                                                       conversation_context, allowed_models)]>>
    /\ UNCHANGED <<env, restrictions, models, providers, default_model, threads, clock,
                   calls, checked, log, ret, outputs>>

\* the call _select_model_and_provider makes: allowed_models = _get_available_models()
OrchestratorSelect(mode, prompt_size, file_count, conversation_context) ==
    LET allowed_models == _get_available_models(restrictions, models, providers)
    IN  /\ selected = <<>>
        /\ selected' = <<[via |-> "orchestrator", mode |-> mode, prompt_size |-> prompt_size,
                          file_count |-> file_count,
                          conversation_context |-> conversation_context,
                          allowed_models |-> allowed_models,
                          result |-> select_model_for_task(models, mode, prompt_size,
                                         file_count, conversation_context, allowed_models)]>>
        /\ UNCHANGED <<env, restrictions, models, providers, default_model, threads, clock,
                       calls, checked, log, ret, outputs>>

\* select_best_model is called without a conversation context
SelectBestModel(mode, prompt_size, file_count) ==
    /\ selected = <<>>
    /\ selected' = <<[via |-> "legacy", mode |-> mode, prompt_size |-> prompt_size,
                      file_count |-> file_count,
                      result |-> select_best_model(restrictions, mode, prompt_size,
                                                   file_count, <<>>)]>>
    /\ UNCHANGED <<env, restrictions, models, providers, default_model, threads, clock,
                   calls, checked, log, ret, outputs>>

\* ModelManager._score_model is called; beside the score it returns, the
\* points its complexity matching added are kept
ScoreModel(model_name, mode, complexity, tokens) ==
    /\ selected = <<>>
    /\ selected' = <<[via |-> "score", model_name |-> model_name, mode |-> mode,
                      complexity |-> complexity, tokens |-> tokens,
                      score |-> _score_model(models, model_name, mode, complexity, tokens),
                      complexity_points |->
                          complexity_matching(
                              Get(ModelConfig(models, model_name), "complexity", EmptyDict),
                              complexity)]>>
    /\ UNCHANGED <<env, restrictions, models, providers, default_model, threads, clock,
                   calls, checked, log, ret, outputs>>

(***************************************************************************)
(* Inputs                                                                  *)
(***************************************************************************)

Environ(openai, google, anthropic, blocked, patterns) ==
    [OPENAI_ALLOWED_MODELS |-> openai, GOOGLE_ALLOWED_MODELS |-> google,
     ANTHROPIC_ALLOWED_MODELS |-> anthropic, BLOCKED_MODELS |-> blocked,
     DISABLED_MODEL_PATTERNS |-> patterns]

\* no restriction variable is set
EnvNone == Environ(<<>>, <<>>, <<>>, <<>>, <<>>)

\* every catalog model is on the block list
EnvBlockCatalog == Environ(<<>>, <<>>, <<>>,
                           <<GEMINI_25_FLASH, GEMINI_25_PRO, GPT_52, GPT_4O_MINI, LLAMA_3>>, <<>>)

\* DISABLED_MODEL_PATTERNS=flash
EnvNoFlash == Environ(<<>>, <<>>, <<>>, <<>>, <<FLASH>>)

\* only gemini-2.5-pro of Google's models, and gpt-5.2 blocked
EnvProOnly == Environ(<<>>, <<GEMINI_25_PRO>>, <<>>, <<GPT_52>>, <<>>)

ModelEntry(name, config) == [name |-> name, config |-> config]

EFlash == ModelEntry(GEMINI_25_FLASH,
    [provider |-> "gemini",
     modes |-> [preferred |-> {"chat"}, suitable |-> {"debug", "refactor"}],
     complexity |-> [optimal |-> "low", min |-> "low"],
     capabilities |-> [context_limit |-> 1000000, cost |-> "low", speed |-> "very_fast"],
     selection_priority |-> 3])

EPro == ModelEntry(GEMINI_25_PRO,
    [provider |-> "gemini",
     modes |-> [preferred |-> {"analyze", "think", "review"}, suitable |-> {"chat"}],
     complexity |-> [optimal |-> "high", min |-> "medium"],
     capabilities |-> [context_limit |-> 2000000, cost |-> "high", speed |-> "medium"],
     selection_priority |-> 2])

EGpt == ModelEntry(GPT_52,
    [provider |-> "openai",
     modes |-> [preferred |-> {"plan", "refactor", "test"}, suitable |-> {"chat", "debug"}],
     complexity |-> [optimal |-> "medium", min |-> "medium"],
     capabilities |-> [context_limit |-> 400000, cost |-> "very_high", speed |-> "fast"],
     selection_priority |-> 1])

\* a fast model with a small context window and no complexity.min
EMini == ModelEntry(GPT_4O_MINI,
    [provider |-> "openai",
     modes |-> [preferred |-> {"chat"}],
     complexity |-> [optimal |-> "low"],
     capabilities |-> [context_limit |-> 8000, cost |-> "low", speed |-> "very_fast"],
     selection_priority |-> 4])

\* an entry that names its provider and nothing else
EBare == ModelEntry(LLAMA_3, [provider |-> "custom"])

\* a model for high complexity that is preferred for no mode and comes last
\* in the selection priority
EDeep == ModelEntry(CLAUDE_3,
    [provider |-> "custom",
     complexity |-> [optimal |-> "high", min |-> "medium"],
     capabilities |-> [context_limit |-> 50000, cost |-> "high", speed |-> "slow"],
     selection_priority |-> 10])

\* a fast model with a small context window that is preferred for analyze
\* and comes first in the selection priority
EQuick == ModelEntry(GPT_4O_MINI,
    [provider |-> "openai",
     modes |-> [preferred |-> {"chat", "analyze"}],
     capabilities |-> [context_limit |-> 8000, cost |-> "low", speed |-> "very_fast"],
     selection_priority |-> 1])

Catalogs ==
    {<<>>, <<EFlash>>, <<EFlash, EPro, EGpt>>, <<EPro, EFlash>>, <<EGpt, EMini, EBare>>,
     <<EMini, EPro>>, <<EDeep, EQuick>>}

ProviderSets == {{}, {"gemini"}, {"gemini", "openai", "custom"}}

FreshCalls == [c \in CallIds |-> IdleCall]

\* the parts of the state a specification does not exercise
InitStore ==
    /\ threads = <<>>
    /\ clock = 0
    /\ log = <<>>
    /\ ret = [op |-> "none", thread_id |-> 0, value |-> FALSE, snapshot |-> <<>>]
    /\ outputs = {}

InitCalls ==
    /\ calls = FreshCalls
    /\ checked = <<>>
    /\ selected = <<>>

(***************************************************************************)
(* SpecRestrict: the restriction service under every configuration         *)
(***************************************************************************)

RawAllowLists == {<<>>, <<GPT_4, GPT_4O, O1_MINI>>, <<GPT_4_PADDED, BLANK>>, <<BLANK, <<>> >>}
RawGoogleLists == {<<>>, <<GEMINI_25_PRO>>, <<FLASH>>}
RawAnthropicLists == {<<>>, <<CLAUDE_3>>}
RawBlockLists == {<<>>, <<GPT_4>>, <<GPT_4_UPPER, GEMINI_25_PRO, LLAMA_3>>, <<CLAUDE_3, O1_MINI>>}
RawPatternLists == {<<>>, <<MINI>>, <<MINI_UPPER, FLASH>>, <<GPT_4>>}

RestrictEnvs ==
    {Environ(o, g, a, b, p) : o \in RawAllowLists, g \in RawGoogleLists,
                              a \in RawAnthropicLists, b \in RawBlockLists,
                              p \in RawPatternLists}

QueryNames == {GPT_4, GPT_4_UPPER, GPT_4_PADDED, GPT_4O, GPT_4O_MINI, O1_MINI, TEXT_X,
               GEMINI_25_PRO, GEMINI_25_FLASH, FLASH, PRO, MINI, CLAUDE_3, LLAMA_3, NoName}

InitRestrict ==
    /\ env \in RestrictEnvs
    /\ restrictions = load_restrictions(env)
    /\ models = <<>>
    /\ providers = {}
    /\ default_model = AUTO
    /\ InitStore
    /\ InitCalls

NextRestrict == \E m \in QueryNames : CheckModel(m)

SpecRestrict == InitRestrict /\ [][NextRestrict]_vars

(***************************************************************************)
(* SpecSelect: the model selector under every configuration                *)
(***************************************************************************)

SelectEnvs == {EnvNone, EnvBlockCatalog, EnvNoFlash, EnvProOnly}
SelectModes == {"chat", "analyze", "debug", "think", "plan", "frobnicate"}
PromptSizes == {0, 39996, 40000, 199996, 200000, 4000000}
FileCounts == {0, 1, 2, 4, 5, 6}
Contexts == {<<>>, <<400>>}
AllowedSets == {{}, {GEMINI_25_PRO}, {GPT_4}, {GEMINI_25_FLASH, GEMINI_25_PRO, GPT_52},
                {GPT_4O_MINI, LLAMA_3}}

InitSelect ==
    /\ env \in SelectEnvs
    /\ restrictions = load_restrictions(env)
    /\ models \in Catalogs
    /\ providers \in ProviderSets
    /\ default_model = AUTO
    /\ InitStore
    /\ InitCalls

NextSelect ==
    \/ \E mode \in SelectModes, size \in PromptSizes, n \in FileCounts,
          ctx \in Contexts, allowed \in AllowedSets :
          SelectModel(mode, size, n, ctx, allowed)
    \/ \E mode \in SelectModes, size \in PromptSizes, n \in FileCounts, ctx \in Contexts :
          OrchestratorSelect(mode, size, n, ctx)

SpecSelect == InitSelect /\ [][NextSelect]_vars

(***************************************************************************)
(* SpecScore: _score_model for every fit of task tier and model tiers      *)
(***************************************************************************)

Tiers == {"low", "medium", "high"}

\* a model whose configuration names its complexity fit; min may be missing
ETiered(optimal, min) ==
    ModelEntry(LLAMA_3,
        IF min = "" THEN [provider |-> "custom", complexity |-> [optimal |-> optimal]]
        ELSE [provider |-> "custom", complexity |-> [optimal |-> optimal, min |-> min]])

ScoreCatalogs ==
    {<<ETiered(o, m)>> : o \in Tiers, m \in Tiers \cup {""}} \cup {<<EGpt, EMini, EBare>>}

ScoreTokens == {0, 9000, 500000}

InitScore ==
    /\ env = EnvNone
    /\ restrictions = load_restrictions(env)
    /\ models \in ScoreCatalogs
    /\ providers = {"gemini", "openai", "custom"}
    /\ default_model = AUTO
    /\ InitStore
    /\ InitCalls

NextScore ==
    \E i \in 1..3, mode \in SelectModes, complexity \in Tiers, tokens \in ScoreTokens :
        i <= Len(models) /\ ScoreModel(models[i].name, mode, complexity, tokens)

SpecScore == InitScore /\ [][NextScore]_vars

(***************************************************************************)
(* SpecLegacy: select_best_model under the restrictions of the tests and   *)
(* under restrictions that refuse its fallback chain                       *)
(***************************************************************************)

\* test_model_auto_selection_with_restrictions
EnvAutoSelectionTest ==
    Environ(<<GPT_4O_MINI>>, <<GEMINI_15_FLASH>>, <<>>, <<GPT_4, CLAUDE_35_SONNET>>, <<>>)

\* test_restrictions_with_model_selection
EnvModelSelectionTest == Environ(<<GPT_4O_MINI>>, <<GEMINI_15_FLASH>>, <<>>, <<>>, <<>>)

\* only the last model of the fallback chain
EnvLegacyProOnly == Environ(<<>>, <<GEMINI_15_PRO>>, <<>>, <<>>, <<>>)

\* DISABLED_MODEL_PATTERNS=gemini refuses the whole chain
EnvNoGemini == Environ(<<>>, <<>>, <<>>, <<>>, <<<<"g", "e", "m", "i", "n", "i">>>>)

\* no Google model and no OpenAI model
EnvNothing == Environ(<<GPT_4>>, <<FLASH>>, <<>>, <<>>, <<>>)

LegacyEnvs ==
    {EnvNone, EnvAutoSelectionTest, EnvModelSelectionTest, EnvLegacyProOnly, EnvNoGemini,
     EnvNothing}

LegacyModes == {"chat", "analyze", "think", "debug", "plan"}
LegacySizes == {1000, 10000, 50000, 250000, 2400000}
LegacyFileCounts == {0, 2, 5, 6}

InitLegacy ==
    /\ env \in LegacyEnvs
    /\ restrictions = load_restrictions(env)
    /\ models = <<>>
    /\ providers = {}
    /\ default_model = AUTO
    /\ InitStore
    /\ InitCalls

NextLegacy ==
    \E mode \in LegacyModes, size \in LegacySizes, n \in LegacyFileCounts :
        SelectBestModel(mode, size, n)

SpecLegacy == InitLegacy /\ [][NextLegacy]_vars

(***************************************************************************)
(* SpecMem: the conversation memory called directly                        *)
(***************************************************************************)

InitMem ==
    /\ env = EnvNone
    /\ restrictions = load_restrictions(env)
    /\ models = <<>>
    /\ providers = {}
    /\ default_model = AUTO
    /\ InitStore
    /\ InitCalls

MemThreadIds == (1..MaxThreads) \cup {UnknownId}

NextMem ==
    \/ CreateThread("sage", "chat")
    \/ \E t \in MemThreadIds, files \in MemFiles : AddTurn(t, "user", files)
    \/ \E t \in MemThreadIds : AddTurn(t, "assistant", <<>>)
    \/ \E t \in MemThreadIds : GetThread(t)

SpecMem == InitMem /\ [][NextMem]_vars

(***************************************************************************)
(* SpecAlias: the conversation memory with callers that go on using the    *)
(* objects they passed in or were handed                                   *)
(***************************************************************************)

\* no caller has changed an object yet; a behaviour follows the callers up to
\* the first such change
Untouched == ret.op # "mutate"

NextAlias ==
    \/ Untouched /\ CreateThread("sage", "chat")
    \/ Untouched /\ \E t \in 1..MaxThreads, files \in MemFiles : AddTurn(t, "user", files)
    \/ Untouched /\ \E t \in 1..MaxThreads : AddTurn(t, "assistant", <<>>)
    \/ Untouched /\ \E t \in 1..MaxThreads : GetThread(t)
    \/ Untouched /\ MutateReturnedTurns
    \/ Untouched /\ \E i \in 1..MaxTurns : MutateReturnedFiles(i)
    \/ Untouched /\ MutateReturnedRequest
    \/ Untouched /\ MutatePassedFiles

SpecAlias == InitMem /\ [][NextAlias]_vars

(***************************************************************************)
(* Spec: SageTool.execute, calls overlapping at the await                  *)
(***************************************************************************)

PromptSmall == [text |-> "hello", len |-> 5]
ShortResult == [text |-> "short answer", len |-> SubstantialLength]
LongResult == [text |-> "long answer", len |-> SubstantialLength + 1]
Results == {ShortResult, LongResult}

\* len(str(conversation_context)) of a thread that was found
ContextChars == {400}

\* the continuation ids a caller can pass: none, a thread of the store, a stale id
Continuations(T) == {<<>>, <<UnknownId>>} \cup {<<t>> : t \in DOMAIN T}

ExecCatalog == <<EFlash, EPro, EGpt>>

Scenario(e, P, D) == [env |-> e, providers |-> P, default_model |-> D]

Scenarios ==
    {Scenario(EnvNone, {"gemini"}, AUTO),
     Scenario(EnvBlockCatalog, {"gemini", "openai", "custom"}, AUTO),
     Scenario(EnvProOnly, {"gemini", "openai", "custom"}, GPT_52)}

ModelArguments == {NoName, GPT_52, GPT5_TYPO, GEMINI_20_FLASH_EXP}

ExecRequests(T) ==
    {Arguments("chat", PromptSmall, <<>>, m, cont, "") :
        m \in ModelArguments, cont \in Continuations(T)}
    \cup
    {Arguments(mode, PromptSmall, <<"/w/a.py">>, NoName, cont, out) :
        mode \in {"analyze", "frobnicate"}, cont \in Continuations(T), out \in {"", "a.py"}}

Init ==
    /\ \E sc \in Scenarios :
          /\ env = sc.env
          /\ providers = sc.providers
          /\ default_model = sc.default_model
    /\ restrictions = load_restrictions(env)
    /\ models = ExecCatalog
    /\ InitStore
    /\ InitCalls

Next ==
    \/ \E c \in CallIds, n \in ContextChars :
          \E arguments \in ExecRequests(threads) : Execute(c, arguments, n)
    \/ \E c \in CallIds, result \in Results : ProviderReturns(c, result)
    \/ \E c \in CallIds : ProviderRaises(c)

Spec == Init /\ [][Next]_vars

(***************************************************************************)
(* SpecConc: execute calls in flight together, the store already holding   *)
(* the thread of an earlier request so that they can continue it           *)
(***************************************************************************)

\* the earlier request, as execute left it when it returned
EarlierCall ==
    ExecuteToAwait(load_restrictions(EnvNone), ExecCatalog, {"gemini", "openai", "custom"},
                   AUTO, <<>>, Files,
                   Arguments("chat", PromptSmall, <<"/w/a.py">>, NoName, <<>>, ""), 0)

\* the store and the log after the earlier request
Earlier == ExecuteAfterAwait(<<>>, <<>>, {}, EarlierCall, LongResult, 0, 0, 0)

ConcRequests(T) ==
    {Arguments("chat", PromptSmall, <<>>, NoName, cont, "") : cont \in Continuations(T)}
    \cup
    {Arguments("review", PromptSmall, <<"/w/c.py">>, NoName, cont, "") :
        cont \in Continuations(T)}

InitConc ==
    /\ env = EnvNone
    /\ providers = {"gemini", "openai", "custom"}
    /\ default_model = AUTO
    /\ restrictions = load_restrictions(env)
    /\ models = ExecCatalog
    /\ threads = Earlier.threads
    /\ log = Earlier.log
    /\ clock = 0
    /\ ret = [op |-> "none", thread_id |-> 0, value |-> FALSE, snapshot |-> <<>>]
    /\ outputs = {}
    /\ InitCalls

NextConc ==
    \/ \E c \in CallIds, n \in ContextChars :
          \E arguments \in ConcRequests(threads) : Execute(c, arguments, n)
    \/ \E c \in CallIds, result \in Results : ProviderReturns(c, result)
    \/ \E c \in CallIds : ProviderRaises(c)
    \/ \E c \in CallIds : Cancelled(c)

SpecConc == InitConc /\ [][NextConc]_vars

(***************************************************************************)
(* SpecFiles: execute on requests that name files, continuing threads      *)
(***************************************************************************)

FileLists == {<<>>, <<"/w/a.py", "/w/b.py">>, <<"/w/a.py", "/w/b.py", "/w/c.py">>,
              <<"a.py">>, <<"a.py", "/w/a.py">>, <<"/w/d">>}

FileRequests(T) ==
    {Arguments("chat", PromptSmall, files, NoName, cont, "") :
        files \in FileLists, cont \in Continuations(T)}

InitFiles ==
    /\ env = EnvNone
    /\ providers = {"gemini", "openai", "custom"}
    /\ default_model = AUTO
    /\ restrictions = load_restrictions(env)
    /\ models = ExecCatalog
    /\ InitStore
    /\ InitCalls

NextFiles ==
    \/ \E c \in CallIds, n \in ContextChars :
          \E arguments \in FileRequests(threads) : Execute(c, arguments, n)
    \/ \E c \in CallIds, result \in Results : ProviderReturns(c, result)
    \/ \E c \in CallIds : ProviderRaises(c)

SpecFiles == InitFiles /\ [][NextFiles]_vars

(***************************************************************************)
(* Properties                                                              *)
(***************************************************************************)

\* the (role, content) pairs of a turns list, in order
RoleContent(turns) ==
    [i \in 1..Len(turns) |-> [role |-> turns[i].role, content |-> turns[i].content]]

IsPrefix(s, t) == Len(s) <= Len(t) /\ SubSeq(t, 1, Len(s)) = s

\* the file paths that appear in a turn of a thread snapshot
FilesInTurns(conversation_context) ==
    IF conversation_context = None THEN {}
    ELSE {f \in Files \cup {"a.py", "/w/d", "/w/out.md"} :
            \E i \in 1..Len(conversation_context.turns) :
               \E k \in 1..Len(conversation_context.turns[i].files) :
                  conversation_context.turns[i].files[k] = f}

\* the allow-list of the provider a lower-cased name belongs to by its prefix,
\* empty when the prefix is of no known provider
AllowListOf(R, m) ==
    IF \E p \in OpenAIPrefixes : StartsWith(m, p) THEN R.openai_allowed
    ELSE IF StartsWith(m, GooglePrefix) \/ m \in {FLASH, PRO} THEN R.google_allowed
    ELSE IF StartsWith(m, AnthropicPrefix) THEN R.anthropic_allowed
    ELSE {}

C2_DispatchedModelAllowed ==
    \A c \in CallIds :
        calls[c].pc = "awaiting" => is_model_allowed(restrictions, calls[c].model_name)

\* C3: the model auto-selection returns, called as the orchestrator calls it,
\* satisfies is_model_allowed; with the pattern "flash" disabled a chat request
\* with a tiny prompt gets no model with "flash" as a whole word in its name.
C3_AutoSelectionAllowed ==
    (selected # <<>> /\ selected[1].via = "orchestrator") =>
        /\ is_model_allowed(restrictions, selected[1].result.model)
        /\ (/\ FLASH \in restrictions.disabled_patterns
            /\ selected[1].mode = "chat"
            /\ selected[1].prompt_size <= 40)
           => ~ReSearchWord(FLASH, Lower(selected[1].result.model))

\* C4: select_model_for_task returns a non-empty model name and a non-empty
\* reasoning for every mode, prompt size, file count, context and allowed set.
C4_SelectorAlwaysAnswers ==
    selected # <<>> =>
        /\ selected[1].result.model # NoName
        /\ selected[1].result.reasoning # <<>>
        /\ \A i \in 1..Len(selected[1].result.reasoning) :
              selected[1].result.reasoning[i] # ""

\* an allowed set that holds no model of a non-empty catalog got the default
C4_Witness ==
    /\ selected # <<>>
    /\ models # <<>>
    /\ selected[1].allowed_models # {}
    /\ \A i \in 1..Len(models) : models[i].name \notin selected[1].allowed_models
    /\ selected[1].result.model = FallbackModel

\* C5: when the provider's complete() fails, no step of that call creates a
\* thread or appends a turn: the steps that begin a call and the step in which
\* complete() raises leave the conversation store as it was.
C5_FailedDispatchLeavesStore ==
    [][\A c \in CallIds :
          (\/ calls[c].pc = "idle" /\ calls'[c].pc # "idle"
           \/ /\ calls[c].pc = "awaiting"
              /\ calls'[c].pc = "error"
              /\ calls'[c].error = "provider error")
          => threads' = threads]_vars

\* complete() failed for a call that was continuing a thread with turns in it
C5_Witness ==
    \E c \in CallIds :
        /\ calls[c].pc = "error"
        /\ calls[c].error = "provider error"
        /\ calls[c].request.continuation_id # <<>>
        /\ calls[c].request.continuation_id[1] \in DOMAIN threads
        /\ threads[calls[c].request.continuation_id[1]].turns # <<>>

\* C6: get_thread(A) has as many turns as add_turn calls on A returned True,
\* and every one of them was added to A, none to another thread.
C6_ThreadIsolation ==
    \A A \in DOMAIN threads :
        LET turns == get_thread(threads, A).turns
        IN  /\ Len(turns) = Len(log[A])
            /\ \A i \in 1..Len(turns) : turns[i].content.for = A

\* two threads hold turns at the same time
C6_Witness ==
    /\ Cardinality(DOMAIN threads) >= 2
    /\ \A A \in DOMAIN threads : threads[A].turns # <<>>

\* C7: the turns get_thread returns are the turns of the successful add_turn
\* calls in call order, and an earlier snapshot of a thread is a prefix of
\* what get_thread returns for it at any later time.
C7_AppendOrder ==
    /\ \A A \in DOMAIN threads : RoleContent(get_thread(threads, A).turns) = log[A]
    /\ (ret.snapshot # <<>> /\ ret.snapshot[1].value # None) =>
          IsPrefix(RoleContent(ret.snapshot[1].value.turns),
                   RoleContent(get_thread(threads, ret.snapshot[1].thread_id).turns))

\* a snapshot taken when the thread had one turn, the thread now having two
C7_Witness ==
    /\ ret.snapshot # <<>>
    /\ ret.snapshot[1].value # None
    /\ Len(ret.snapshot[1].value.turns) = 1
    /\ Len(threads[ret.snapshot[1].thread_id].turns) = 2

\* the calls that reached _process_files
PastValidation(c) ==
    /\ calls[c].pc # "idle"
    /\ calls[c].error \notin {"outdated model", "model not allowed", "invalid file paths"}

\* C8: the new files of a request are the expanded request files that are in
\* no turn of the resolved thread, in request order, and exactly those are
\* read; history {a, b} and request {a, b, c} give {c}; without a resolved
\* thread every expanded file is new.
C8_NewFilesAreUnseenFiles ==
    \A c \in CallIds :
        PastValidation(c) =>
            LET E == FilesInTurns(calls[c].conversation_context)
                expanded == expand_paths(Files \cup outputs, calls[c].request.files)
                unseen == SelectSeq(expanded, LAMBDA f : f \notin E)
            IN  /\ calls[c].new_files = unseen
                /\ calls[c].read = unseen
                /\ (/\ E = {"/w/a.py", "/w/b.py"}
                    /\ calls[c].request.files = <<"/w/a.py", "/w/b.py", "/w/c.py">>)
                   => calls[c].new_files = <<"/w/c.py">>

\* history {a, b}, request {a, b, c}: only c is read
C8_Witness ==
    \E c \in CallIds :
        /\ PastValidation(c)
        /\ FilesInTurns(calls[c].conversation_context) = {"/w/a.py", "/w/b.py"}
        /\ calls[c].request.files = <<"/w/a.py", "/w/b.py", "/w/c.py">>
        /\ calls[c].read = <<"/w/c.py">>

\* the files whose content an earlier turn of the thread read: the turns record
\* the paths of their requests, which expand to the files that were read
ReadInEarlierTurns(conversation_context) ==
    IF conversation_context = None THEN {}
    ELSE UNION {LET e == expand_paths(Files \cup outputs,
                                      conversation_context.turns[i].files)
                IN  {e[k] : k \in 1..Len(e)} :
                i \in 1..Len(conversation_context.turns)}

\* C9: a call that continues a thread reads no file that an earlier turn of the
\* thread already read.
C9_NoFileReadTwice ==
    \A c \in CallIds :
        calls[c].pc = "done" =>
            \A k \in 1..Len(calls[c].read) :
                calls[c].read[k] \notin ReadInEarlierTurns(calls[c].conversation_context)

\* C10: the user turn execute records carries exactly the new files of the
\* request, and the assistant turn the response and the resolved model name.
C10_UserTurnCarriesNewFiles ==
    [][\A c \in CallIds :
          (/\ calls[c].pc = "awaiting"
           /\ calls'[c].pc = "done"
           /\ calls'[c].thread_id # <<>>
           /\ calls'[c].thread_id[1] \in DOMAIN threads')
          => LET turns == threads'[calls'[c].thread_id[1]].turns
                 n == Len(turns)
             IN  /\ turns[n - 1].role = "user"
                 /\ turns[n - 1].files = calls[c].new_files
                 /\ turns[n].role = "assistant"
                 /\ turns[n].content = calls'[c].result
                 /\ turns[n].model_name = calls[c].model_name]_vars

\* the call c begins in this step, naming a continuation id the store does not hold
BeginsWithStaleId(c) ==
    /\ calls[c].pc = "idle"
    /\ calls'[c].pc # "idle"
    /\ calls'[c].request.continuation_id # <<>>
    /\ calls'[c].request.continuation_id[1] \notin DOMAIN threads

\* C11: execute with a continuation_id that names no thread proceeds exactly
\* as the same request without continuation_id does up to the dispatch (empty
\* history, no embedded files, every expanded file new), and when the
\* provider returns it hands back the provider's response, not an error.
C11_StaleContinuationIsFresh ==
    [][\A c \in CallIds :
          /\ BeginsWithStaleId(c) =>
                LET fresh == ExecuteToAwait(
                                 restrictions, models, providers, default_model, threads,
                                 Files \cup outputs,
                                 [calls'[c].request EXCEPT !.continuation_id = <<>>], 0)
                IN  /\ calls'[c] = [fresh EXCEPT !.request = calls'[c].request,
                                                 !.arguments = calls'[c].arguments]
                    /\ calls'[c].conversation_context = None
                    /\ calls'[c].embedded_files = {}
          /\ (/\ calls[c].pc = "awaiting"
              /\ calls[c].request.continuation_id # <<>>
              /\ calls[c].conversation_context = None
              /\ calls[c].request.output_file = ""
              /\ calls'[c].pc \in {"done", "error"}
              /\ calls'[c].error # "provider error")
             => /\ calls'[c].pc = "done"
                /\ calls'[c].response = [kind |-> "result", result |-> calls'[c].result]]_vars

\* a call that named an unknown thread was dispatched and returned the response
C11_Witness ==
    \E c \in CallIds :
        /\ calls[c].pc = "done"
        /\ calls[c].request.continuation_id # <<>>
        /\ calls[c].conversation_context = None
        /\ DOMAIN threads # {}
        /\ calls[c].response = [kind |-> "result", result |-> calls[c].result]

\* the model the arguments name once the correction table has been applied,
\* NoName when they name none or the table refuses the name
ModelAfterCorrection(arguments) ==
    LET lower_model == Strip(Lower(arguments.model))
    IN  IF arguments.model = NoName THEN NoName
        ELSE IF \E pair \in model_corrections : pair[1] = lower_model
             THEN Corrected(lower_model)
        ELSE arguments.model

\* C12: a request that names a model which, after the correction table, fails
\* is_model_allowed ends in an error response: it is never dispatched, no
\* model is resolved in its place, and the store is left as it was.
C12_RefusedModelFailsFast ==
    [][\A c \in CallIds :
          /\ (/\ calls[c].pc = "idle"
              /\ calls'[c].pc # "idle"
              /\ ModelAfterCorrection(calls'[c].arguments) # NoName
              /\ ~is_model_allowed(restrictions, ModelAfterCorrection(calls'[c].arguments)))
             => /\ calls'[c].pc = "error"
                /\ calls'[c].error = "model not allowed"
                /\ calls'[c].model_name = NoName
                /\ calls'[c].provider = ""
                /\ threads' = threads
          /\ calls[c].pc = "error" => calls'[c] = calls[c]]_vars

\* a request whose mistyped model name was corrected to a blocked model was
\* refused while the store held a thread
C12_Witness ==
    \E c \in CallIds :
        /\ calls[c].pc = "error"
        /\ calls[c].error = "model not allowed"
        /\ calls[c].arguments.model = GPT5_TYPO
        /\ calls[c].request.model = GPT_52
        /\ ~is_model_allowed(restrictions, GPT_52)
        /\ DOMAIN threads # {}

\* C13: add_turn on an id the store does not hold returns False and changes no
\* thread; get_thread on such an id returns None.
C13_UnknownThreadIsRefused ==
    [][/\ (/\ ret' # ret
           /\ ret'.op = "add_turn"
           /\ ret'.thread_id \notin DOMAIN threads)
          => /\ ret'.value = FALSE
             /\ threads' = threads
             /\ log' = log
       /\ (/\ ret' # ret
           /\ ret'.op = "get_thread"
           /\ ret'.thread_id \notin DOMAIN threads)
          => /\ ret'.snapshot[1].value = None
             /\ threads' = threads]_vars

\* add_turn on an unknown id returned False while the store held a thread with turns
C13_Witness ==
    /\ ret.op = "add_turn"
    /\ ret.thread_id \notin DOMAIN threads
    /\ ret.value = FALSE
    /\ \E A \in DOMAIN threads : threads[A].turns # <<>>

\* C14: what get_thread returns shares nothing with the store: when a caller
\* changes the snapshot it was handed, or the files list it passed to
\* add_turn, no later get_thread call returns anything different.
C14_SnapshotSharesNothing ==
    [][ret'.op = "mutate" =>
          \A t \in DOMAIN threads : get_thread(threads', t) = get_thread(threads, t)]_vars

\* the successful calls that recorded to thread t
RecordedTo(t) ==
    {c \in CallIds : calls[c].pc = "done" /\ calls[c].thread_id = <<t>>}

\* the turns thread t held before any of the calls began
TurnsBefore(t) == IF t \in DOMAIN Earlier.threads THEN Earlier.threads[t].turns ELSE <<>>

\* turns i and i + 1 of thread t are the user and the assistant turn of call c
PairOf(t, i, c) ==
    LET user == threads[t].turns[i]
        assistant == threads[t].turns[i + 1]
    IN  /\ user.role = "user"
        /\ user.content = calls[c].request.prompt
        /\ user.files = calls[c].request.files
        /\ user.mode = calls[c].request.mode
        /\ user.model_name = calls[c].model_name
        /\ assistant.role = "assistant"
        /\ assistant.content = calls[c].result
        /\ assistant.mode = calls[c].request.mode
        /\ assistant.model_name = calls[c].model_name

\* C15: with execute calls interleaving at the await, on one thread or on
\* several, every thread holds the turns it held before followed by exactly
\* two turns per successful call that recorded to it, each user turn directly
\* followed by the assistant turn of the same call; nothing is lost,
\* duplicated or put in another thread.
C15_ConcurrentCallsRecordPairs ==
    \A t \in DOMAIN threads :
        LET before == Len(TurnsBefore(t))
            turns == threads[t].turns
        IN  /\ Len(turns) = before + 2 * Cardinality(RecordedTo(t))
            /\ SubSeq(turns, 1, before) = TurnsBefore(t)
            /\ \E order \in [1..Cardinality(RecordedTo(t)) -> RecordedTo(t)] :
                  /\ \A j, k \in DOMAIN order : order[j] = order[k] => j = k
                  /\ \A j \in DOMAIN order : PairOf(t, before + 2 * j - 1, order[j])

\* two calls that were in flight together both recorded to the earlier thread,
\* the call begun second finishing first
C15_Witness ==
    /\ calls[1].pc = "done"
    /\ calls[2].pc = "done"
    /\ calls[1].thread_id = <<1>>
    /\ calls[2].thread_id = <<1>>
    /\ calls[1].request.mode # calls[2].request.mode
    /\ PairOf(1, 3, 2)
    /\ PairOf(1, 5, 1)

\* C16: a request cancelled while execute awaits complete() leaves no trace:
\* neither the step that begins the call nor the cancellation creates a
\* thread, appends a turn or writes a file, and the call does nothing after.
C16_CancelledCallLeavesNoTrace ==
    [][\A c \in CallIds :
          /\ (\/ calls[c].pc = "idle" /\ calls'[c].pc = "awaiting"
              \/ calls[c].pc = "awaiting" /\ calls'[c].pc = "cancelled")
             => /\ threads' = threads
                /\ log' = log
                /\ outputs' = outputs
          /\ calls[c].pc = "cancelled" => calls'[c] = calls[c]]_vars

\* a call continuing the earlier thread was cancelled after another call, in
\* flight with it, had recorded to that thread
C16_Witness ==
    \E c, d \in CallIds :
        /\ calls[c].pc = "cancelled"
        /\ calls[c].request.continuation_id = <<1>>
        /\ d > c
        /\ calls[d].pc = "done"
        /\ calls[d].thread_id = <<1>>
        /\ Len(threads[1].turns) = Len(TurnsBefore(1)) + 2

OccursAsWord(p, s) ==
    \E i \in 1..(Len(s) - Len(p) + 1) :
        /\ SubSeq(s, i, i + Len(p) - 1) = p
        /\ i > 1 => s[i - 1] \notin WordChars
        /\ i + Len(p) <= Len(s) => s[i + Len(p)] \notin WordChars

C19_NameIsNormalised ==
    checked # <<>> =>
        /\ checked[1].allowed =
              is_model_allowed(restrictions, Strip(Lower(checked[1].model_name)))
        /\ restrictions = load_restrictions(
              [k \in DOMAIN env |-> [i \in 1..Len(env[k]) |-> Strip(Lower(env[k][i]))]])

\* the first characters of s are those of p
BeginsWith(s, p) == Len(p) <= Len(s) /\ \A i \in 1..Len(p) : s[i] = p[i]

\* the provider prefixes the specification names
NamedPrefixes ==
    {<<"g","p","t">>, <<"o","1">>, <<"o","3">>, <<"g","e","m","i","n","i">>,
     <<"c","l","a","u","d","e">>}

\* C20, as stated: a model whose name begins with none of gpt, o1, o3, gemini
\* and claude is allowed whatever the allow-lists hold, unless it is in the
\* block-set or matches a disabled pattern.
C20_UnknownPrefixAllowed ==
    checked # <<>> =>
        LET m == Lower(checked[1].model_name)
        IN  (/\ \A p \in NamedPrefixes : ~BeginsWith(m, p)
             /\ m \notin restrictions.blocked_models
             /\ \A p \in restrictions.disabled_patterns : ~OccursAsWord(p, m))
            => checked[1].allowed

\* C20, amended: the same for a model whose name begins with none of gpt, o1,
\* o3, text-, gemini and claude and is neither "flash" nor "pro".
C20_UnknownProviderAllowed ==
    checked # <<>> =>
        LET m == Lower(checked[1].model_name)
        IN  (/\ \A p \in NamedPrefixes \cup {<<"t","e","x","t","-">>} : ~BeginsWith(m, p)
             /\ m \notin {FLASH, PRO}
             /\ m \notin restrictions.blocked_models
             /\ \A p \in restrictions.disabled_patterns : ~OccursAsWord(p, m))
            => checked[1].allowed

\* llama-3 was allowed although every provider has an allow-list without it
C20_Witness ==
    /\ checked # <<>>
    /\ checked[1].model_name = LLAMA_3
    /\ restrictions.openai_allowed # {}
    /\ restrictions.google_allowed # {}
    /\ restrictions.anthropic_allowed # {}
    /\ checked[1].allowed

\* C21: a block-list entry rejects every model whose lower-cased name begins
\* with the entry, not only the model whose name equals it.
C21_BlockEntryRejectsByPrefix ==
    checked # <<>> =>
        ((\E b \in restrictions.blocked_models :
              BeginsWith(Lower(checked[1].model_name), b))
         => ~checked[1].allowed)

\* C22: after a successful dispatch a new thread is created exactly when the
\* request resolved no existing thread and the response is longer than 100
\* characters; a thread that exists or is created receives one user turn
\* followed by one assistant turn, and otherwise nothing is recorded.
C22_ThreadCreatedWhenUnresolved ==
    [][\A c \in CallIds :
          (calls[c].pc = "awaiting" /\ calls'[c].result # None) =>
              LET resolved == calls[c].conversation_context # None
                  long == calls'[c].result.len > 100
                  created == DOMAIN threads' \ DOMAIN threads
                  before(t) == IF t \in DOMAIN threads THEN threads[t].turns ELSE <<>>
                  paired(t) ==
                      /\ Len(threads'[t].turns) = Len(before(t)) + 2
                      /\ SubSeq(threads'[t].turns, 1, Len(before(t))) = before(t)
                      /\ threads'[t].turns[Len(before(t)) + 1].role = "user"
                      /\ threads'[t].turns[Len(before(t)) + 2].role = "assistant"
              IN  /\ (created # {}) <=> (~resolved /\ long)
                  /\ Cardinality(created) <= 1
                  /\ \A t \in created : paired(t)
                  /\ resolved => paired(calls[c].request.continuation_id[1])
                  /\ (~resolved /\ ~long) => threads' = threads]_vars

\* C23: a request that fails validation (unknown mode, outdated or disallowed
\* model name, unsafe file path) is rejected before any of its files is
\* expanded or read and before complete() is invoked.
C23_InvalidRequestReadsNothing ==
    \A c \in CallIds :
        (/\ calls[c].pc = "error"
         /\ calls[c].error \in {"outdated model", "model not allowed",
                                "invalid file paths", "unknown mode"})
        => /\ calls[c].new_files = <<>>
           /\ calls[c].read = <<>>
           /\ calls[c].result = None

\* C24: whenever execute returns an error object, at whatever step the error
\* arose, the conversation store is what it was before: no thread was created
\* and no turn was appended by the call.
C24_ErrorLeavesStoreUntouched ==
    [][\A c \in CallIds :
          (calls[c].pc # "error" /\ calls'[c].pc = "error") => threads' = threads]_vars

\* the order of the tiers
TierOrder == [low |-> 1, medium |-> 2, high |-> 3]

\* C25: the complexity term of _score_model is +2.0 when the task's tier is the
\* model's optimal tier, otherwise +1.0 exactly when the task's tier is at or
\* above the model's minimum tier in the order low < medium < high, otherwise
\* 0 (scores are doubled in the model).
C25_ComplexityTermFollowsTierOrder ==
    (selected # <<>> /\ selected[1].via = "score") =>
        LET fit == Get(ModelConfig(models, selected[1].model_name), "complexity", EmptyDict)
            tier == selected[1].complexity
        IN  ("optimal" \in DOMAIN fit /\ "min" \in DOMAIN fit) =>
                selected[1].complexity_points =
                    IF tier = fit.optimal THEN 4
                    ELSE IF TierOrder[tier] >= TierOrder[fit.min] THEN 2
                    ELSE 0

\* C26: given an allowed-model set, select_model_for_task returns a catalog
\* model of that set; when no catalog model is in the set, in particular when
\* the set is empty, it returns the hard-coded fallback model with the
\* reasoning that no allowed models are available.
C26_OnlyAllowedModelsAreReturned ==
    (/\ selected # <<>>
     /\ (selected[1].via = "orchestrator"
         \/ (selected[1].via = "direct" /\ selected[1].allowed_models # {})))
    => LET candidates == {models[i].name : i \in 1..Len(models)}
                             \cap selected[1].allowed_models
       IN  IF candidates # {}
           THEN selected[1].result.model \in candidates
           ELSE /\ selected[1].result.model = FallbackModel
                /\ selected[1].result.reasoning =
                       <<"No allowed models available, using default">>

\* the models the example scenario is about: H is made for high complexity and
\* has room for 50,000 tokens, L is very fast and has no room for tokens
IsH(config) ==
    /\ Get(Get(config, "complexity", EmptyDict), "optimal", "") = "high"
    /\ "capabilities" \in DOMAIN config
    /\ Get(config.capabilities, "context_limit", 0) >= 50000

IsL(config, tokens) ==
    /\ "capabilities" \in DOMAIN config
    /\ Get(config.capabilities, "speed", "") = "very_fast"
    /\ "context_limit" \in DOMAIN config.capabilities
    /\ config.capabilities.context_limit < tokens

\* C27: for mode analyze, a prompt of 200000 characters and 6 files the tier
\* is high, and in any catalog that holds a model H with optimal complexity
\* high and a context limit of at least 50000 and a very fast model L whose
\* context limit is below the token estimate, H scores strictly higher than L
\* and L is not selected.
C27_HighTierModelBeatsFastModel ==
    (/\ selected # <<>>
     /\ selected[1].via = "direct"
     /\ selected[1].mode = "analyze"
     /\ selected[1].prompt_size = 200000
     /\ selected[1].file_count = 6
     /\ selected[1].conversation_context = <<>>
     /\ selected[1].allowed_models = {})
    => /\ _determine_complexity("analyze", 200000 \div 4, 6) = "high"
       /\ \A h, l \in 1..Len(models) :
             (IsH(models[h].config) /\ IsL(models[l].config, 200000 \div 4))
             => /\ _score_model(models, models[h].name, "analyze", "high", 200000 \div 4)
                   > _score_model(models, models[l].name, "analyze", "high", 200000 \div 4)
                /\ selected[1].result.model # models[l].name

\* the inputs of the tests that call select_best_model
TestInputs ==
    {<<"chat", 1000, 0>>, <<"analyze", 50000, 5>>, <<"think", 10000, 2>>,
     <<"analyze", 1000, 0>>, <<"debug", 1000, 0>>}

\* C28: when its first pick is not allowed, select_best_model returns the
\* first allowed model of the chain gemini-2.5-flash, gemini-1.5-flash,
\* gemini-1.5-pro; when no model of the chain is allowed it returns a
\* last-resort default, one model whatever the mode, prompt size and file
\* count; for the inputs and restrictions of the tests the model it returns
\* is allowed.
C28_LegacySelectorFallsBack ==
    (selected # <<>> /\ selected[1].via = "legacy") =>
        LET Allowed(m) == is_model_allowed(restrictions, m)
            Pick(mode, size, n) == selected_model(restrictions, mode, size, n, <<>>)
            first == Pick(selected[1].mode, selected[1].prompt_size, selected[1].file_count)
            chain == <<GEMINI_25_FLASH, GEMINI_15_FLASH, GEMINI_15_PRO>>
            result == selected[1].result
        IN  /\ (~Allowed(first) /\ \E i \in 1..3 : Allowed(chain[i]))
               => \E i \in 1..3 : /\ result = chain[i]
                                  /\ Allowed(chain[i])
                                  /\ \A j \in 1..(i - 1) : ~Allowed(chain[j])
            /\ (~Allowed(first) /\ \A i \in 1..3 : ~Allowed(chain[i]))
               => /\ result # NoName
                  /\ \A mode \in LegacyModes, size \in LegacySizes, n \in LegacyFileCounts :
                        ~Allowed(Pick(mode, size, n))
                        => select_best_model(restrictions, mode, size, n, <<>>) = result
            /\ (/\ env \in {EnvAutoSelectionTest, EnvModelSelectionTest}
                /\ <<selected[1].mode, selected[1].prompt_size, selected[1].file_count>>
                       \in TestInputs)
               => Allowed(result)

\* C29: the tier is computed from tokens = prompt_size // 4, plus
\* len(str(context)) // 4 when there is a conversation context: high if
\* file_count >= 5 or tokens >= 50000 or the mode is think or analyze;
\* otherwise medium if file_count >= 2 or tokens >= 10000 or the mode is one
\* of debug, review, plan, refactor, test; otherwise low.  The reasoning
\* returned with the selected model names the tier and the tokens.
C29_TierFollowsThresholds ==
    (/\ selected # <<>>
     /\ selected[1].via \in {"direct", "orchestrator"}
     /\ selected[1].result.reasoning[1] = "Selected for:")
    => LET context == selected[1].conversation_context
           tokens == (selected[1].prompt_size \div 4)
                     + (IF context # <<>> THEN context[1] \div 4 ELSE 0)
           n == selected[1].file_count
           mode == selected[1].mode
           tier == IF n >= 5 \/ tokens >= 50000 \/ mode \in {"think", "analyze"}
                   THEN "high"
                   ELSE IF \/ n >= 2
                           \/ tokens >= 10000
                           \/ mode \in {"debug", "review", "plan", "refactor", "test"}
                        THEN "medium"
                        ELSE "low"
       IN  /\ selected[1].result.reasoning[3] = "complexity=" \o tier
           /\ selected[1].result.reasoning[4] = "tokens=" \o ToString(tokens)

\* a chat request of exactly 10000 tokens and no files was rated medium
C29_Witness ==
    /\ selected # <<>>
    /\ selected[1].via = "direct"
    /\ selected[1].mode = "chat"
    /\ selected[1].prompt_size = 40000
    /\ selected[1].conversation_context = <<>>
    /\ selected[1].file_count = 0
    /\ Len(selected[1].result.reasoning) >= 4
    /\ selected[1].result.reasoning[3] = "complexity=medium"
    /\ selected[1].result.reasoning[4] = "tokens=10000"

\* the catalog positions select_model_for_task scores for the call recorded
Candidates ==
    {i \in 1..Len(models) :
        selected[1].allowed_models # {} => models[i].name \in selected[1].allowed_models}

\* the score of the catalog model at position i for the call recorded
ScoreAt(i) ==
    LET context == selected[1].conversation_context
        tokens == (selected[1].prompt_size \div 4)
                  + (IF context # <<>> THEN context[1] \div 4 ELSE 0)
    IN  _score_model(models, models[i].name, selected[1].mode,
                     _determine_complexity(selected[1].mode, tokens, selected[1].file_count),
                     tokens)

\* C30: select_model_for_task returns a candidate whose score is at least the
\* score of every other candidate, and of the candidates that share the
\* highest score the one that comes first in the catalog.
C30_HighestScoreFirstInCatalog ==
    (/\ selected # <<>>
     /\ selected[1].via \in {"direct", "orchestrator"}
     /\ selected[1].result.reasoning[1] = "Selected for:")
    => \E r \in Candidates :
          /\ models[r].name = selected[1].result.model
          /\ \A j \in Candidates :
                /\ ScoreAt(j) <= ScoreAt(r)
                /\ j < r => ScoreAt(j) < ScoreAt(r)

\* two candidates shared the highest score and the earlier one was returned
C30_Witness ==
    /\ selected # <<>>
    /\ selected[1].via = "direct"
    /\ selected[1].result.reasoning[1] = "Selected for:"
    /\ \E r, j \in Candidates :
          /\ r < j
          /\ models[r].name = selected[1].result.model
          /\ ScoreAt(j) = ScoreAt(r)
          /\ \A k \in Candidates : ScoreAt(k) <= ScoreAt(r)

====
